---- MODULE Spec2Model ----
(***************************************************************************)
(* Latte telemetry: the hot-path recording engine (Recorder Start/Stop,    *)
(* LATTE_PULSE, ThreadStorage scope stack, RingBuffer) and the Manager.    *)
(* Model of the canonical revision, src/unnamed/part_001 lines 162-796.    *)
(***************************************************************************)
EXTENDS Integers, Sequences, FiniteSets, TLC

(***************************************************************************)
(* Sizes.  The program's sizes (64 scopes, 2^16 slots, 64-bit cycles,      *)
(* 10000 warm-up iterations) are scaled down; the structure is kept:       *)
(* MAX_SAMPLES is a power of two and the head wraps by bitmask.            *)
(***************************************************************************)
MAX_ACTIVE_SLOTS == 2

BUFFER_PWR == 2

MAX_SAMPLES == 2 ^ BUFFER_PWR

BUFFER_MASK == MAX_SAMPLES - 1

CyclesBits == 10

CyclesMod == 2 ^ CyclesBits

\* hot-path calls (Start, Stop, Pulse) made in one behaviour
MaxOps == 3

\* EnsureCalibrated calls made in one behaviour
MaxCals == 2

\* WARMUP_ITERS of Manager::Calibrate (10000 in the program)
WARMUP_ITERS == 1

\* BUCKET of BUMED (1000 in the program)
BUCKET == 2

\* BUCKET_SIZE of Internal::CleanData (1000 in the program)
BUCKET_SIZE == 4

\* longest sequence of extracted samples handed to BUMED
MaxBumedLen == 6

\* longest sample sequence, of any content, handed to the cleaner
MaxCleanLen == 6

\* most full buckets in a sample sequence handed to the cleaner
MaxCleanBuckets == 5

\* hot-path calls of the single-thread nesting runs (SpecNest)
MaxNestOps == 6

\* hot-path calls of the runs with DumpToStream (SpecDump)
MaxDumpOps == 2

\* hot-path calls of the runs with calibrated reports of one id recorded by two
\* threads (SpecMix)
MaxMixOps == 4

\* hot-path calls begun in the runs executed statement by statement (SpecStep)
MaxStepOps == 3

\* hot-path calls of the runs with Snapshot (SpecSnap)
MaxSnapOps == 4

\* hot-path calls of the runs with direct calls of Manager::Calibrate (SpecDirect)
MaxDirectOps == 2

\* calls begun in the runs with the calibration latch (SpecLatch)
MaxLatchCalls == 2

\* hot-path calls of the single-thread, single-id runs (SpecRing)
MaxRingOps == 11

\* value of the timestamp counter when the program starts
TscInit == 1

Threads == {1, 2}

NullId == "nullptr"

UserIds == {"A", "B"}

\* Mode : uint8_t { Fast = 0, Mid = 1, Hard = 2 }
Fast == 0

Mid == 1

Hard == 2

Modes == {Fast, Mid, Hard}

CALIB_KEY_UNSET == 255

CALIB_KEY_MIXED == 254

CALIB_KEY_PULSE == 9

CALIB_KEY_COUNT == 10

\* call sites of LATTE_PULSE in user code (each has its own thread_local statics)
UserSites == {"s1", "s2"}

\* What the modelled callers pass.  Thread 1 draws from the larger sets; the
\* other threads record "B" in the remaining modes while the counter ticks.
StartIds(th) == IF th = 1 THEN UserIds ELSE {"B"}

StartModes(th) == IF th = 1 THEN {Fast, Mid} ELSE {Hard}

StopModes(th) == IF th = 1 THEN {Fast, Hard} ELSE {Mid}

StopArgs(th) == IF th = 1 THEN {"A", NullId} ELSE {"B"}

PulseSites(th) == IF th = 1 THEN UserSites ELSE {"s1"}

\* the LATTE_PULSE("xxxx") in Manager::Calibrate
CalibSite == "cal"

AllSites == UserSites \cup {CalibSite}

\* Calibration labels, in the order the calibration loop runs them:
\* <<start mode, stop mode, id>>
CalibPerms ==
    << <<Fast, Fast, "FxF">>, <<Fast, Mid, "FxM">>, <<Fast, Hard, "FxH">>,
       <<Mid, Fast, "MxF">>,  <<Mid, Mid, "MxM">>,  <<Mid, Hard, "MxH">>,
       <<Hard, Fast, "HxF">>, <<Hard, Mid, "HxM">>, <<Hard, Hard, "HxH">> >>

CALIB_PULSE == "PxP"

CalibScratch == "xxxx"

\* the ids Calibrate erases from the calling thread's map when it is done
CalibIds == {CalibPerms[k][3] : k \in 1 .. Len(CalibPerms)} \cup {CALIB_PULSE, CalibScratch}

\* what the reads inside one calibration run advance the counter by
CalJumps == {0, 2}

\* elapsed wall-clock nanoseconds the calibrator may measure
WallNs == {0, 2}

\* _l_rb == nullptr
NullRb == "nullrb"

\* what one read of the timestamp counter may return, relative to the previous
\* read: a later value, the same value, or (core migration) an earlier one
TscJumps == {-1, 0, 1}

\* the jumps of the other threads and of the runs with calibration: the counter ticks
TickJumps == {1}


Jumps(th) == IF th = 1 THEN TscJumps ELSE TickJumps

\* the jumps of the Stop calls in the runs with reports: samples below and above
\* the offsets the calibrator measures
DumpJumps == {1, 3}

\* the jumps of the single-thread runs: the counter advances, or stalls
ForwardJumps == {1, 2}

StallJumps == {0, 1}


VARIABLES
    ts,            \* ts[t]: the ThreadStorage of thread t (as new while has_ts[t] is FALSE)
    has_ts,        \* has_ts[t]: GetThreadStorage's thread_local pointer is non-null
    thread_buffers,\* Manager::thread_buffers, the registry (a sequence of threads)
    pulse_rb,      \* pulse_rb[t][site]: _l_rb, the id whose map node is cached, or NullRb
    pulse_last,    \* pulse_last[t][site]: _l_last
    tsc,           \* the value the timestamp counter returned last
    calibrate_once,\* Manager::calibrate_once has run its callable
    cycles_per_ns, \* Manager::cycles_per_ns, a double, as the quotient num / den
    calib_offsets, \* Manager::calib_offsets
    calib_valid,   \* Manager::calib_valid
    \* history variables (not program state)
    mono,          \* every read of the counter so far returned more than the one before
    calls,         \* calls[t]: the caller's open Start calls, innermost last
    nested,        \* nested[t]: every Stop so far named the innermost open Start
    dropped,       \* dropped[t]: some Start of t found the scope stack full
    pushed,        \* pushed[t][id]: the values pushed into the live buffer of id, in order
    pairs,         \* pairs[t]: the Stop calls of t that named the innermost open Start
    run,           \* run[t]: k Start calls found the stack full and m Stop calls followed
    last,          \* the call made last, and the depth of its thread's stack before it
    ops,           \* number of hot-path calls so far
    cals,          \* number of EnsureCalibrated calls so far
    snap,          \* the id and the result of the last Snapshot call
    report,        \* what the last DumpToStream call reported: per id, the tag and
                   \* the adjusted samples of the series
    started,       \* started[t][id]: the Start(id) calls of t in user code
    pulsed,        \* pulsed[t][id]: the LATTE_PULSE(id) calls of t in user code: how many
                   \* (n), the counter value the last one read (t), and how many of
                   \* them looked the buffer up (lookups)
    applied,       \* the function applied last (DataClean, BUMED), its argument and result
    mutex,         \* Manager::mutex: the thread that holds it, or 0
    pc             \* pc[t]: where thread t is in the call it is executing step by step

vars == <<ts, has_ts, thread_buffers, pulse_rb, pulse_last, tsc,
          calibrate_once, cycles_per_ns, calib_offsets, calib_valid,
          mono, calls, nested, dropped, pushed, pairs, run, last, ops, cals,
          snap, report, started, pulsed, applied, mutex, pc>>

\* the variables of the function applications and of the step-by-step executions
fine == <<applied, mutex, pc>>

(***************************************************************************)
(* Bit arithmetic                                                          *)
(***************************************************************************)
RECURSIVE BitAnd(_, _)
BitAnd(a, b) ==
    IF a = 0 \/ b = 0 THEN 0
    ELSE (IF a % 2 = 1 /\ b % 2 = 1 THEN 1 ELSE 0) + 2 * BitAnd(a \div 2, b \div 2)

\* unsigned subtraction of Cycles (uint64_t in the program)
CyclesSub(a, b) == (a - b) % CyclesMod

(***************************************************************************)
(* RingBuffer                                                              *)
(***************************************************************************)
Slots == 0 .. (MAX_SAMPLES - 1)

NewRingBuffer ==
    [data |-> [i \in Slots |-> 0], head |-> 0, calib_key |-> CALIB_KEY_UNSET]

\* push leaving every other slot of the ring unwritten
pushSkipping(rb, val, key) ==
    [data |-> [rb.data EXCEPT ![rb.head] = val],
     head |-> BitAnd(rb.head + 2, BUFFER_MASK),
     calib_key |-> IF rb.calib_key = CALIB_KEY_UNSET THEN key
                   ELSE IF rb.calib_key # key THEN CALIB_KEY_MIXED
                   ELSE rb.calib_key]

\* push whose head stops at the last slot instead of wrapping
pushSaturating(rb, val, key) ==
    [data |-> [rb.data EXCEPT ![rb.head] = val],
     head |-> IF rb.head + 1 > BUFFER_MASK THEN BUFFER_MASK ELSE rb.head + 1,
     calib_key |-> IF rb.calib_key = CALIB_KEY_UNSET THEN key
                   ELSE IF rb.calib_key # key THEN CALIB_KEY_MIXED
                   ELSE rb.calib_key]

\* push advancing the head before it writes
pushAdvanceFirst(rb, val, key) ==
    [data |-> [rb.data EXCEPT ![BitAnd(rb.head + 1, BUFFER_MASK)] = val],
     head |-> BitAnd(rb.head + 1, BUFFER_MASK),
     calib_key |-> IF rb.calib_key = CALIB_KEY_UNSET THEN key
                   ELSE IF rb.calib_key # key THEN CALIB_KEY_MIXED
                   ELSE rb.calib_key]

\* push overwriting the tag with the key of the latest sample
pushRetagging(rb, val, key) ==
    [data |-> [rb.data EXCEPT ![rb.head] = val],
     head |-> BitAnd(rb.head + 1, BUFFER_MASK),
     calib_key |-> key]

push(rb, val, key) ==
    [data |-> [rb.data EXCEPT ![rb.head] = val],
     head |-> BitAnd(rb.head + 1, BUFFER_MASK),
     calib_key |-> IF rb.calib_key = CALIB_KEY_UNSET THEN key
                   ELSE IF rb.calib_key # key THEN CALIB_KEY_MIXED
                   ELSE rb.calib_key]

CalibKey(start_mode, stop_mode) ==
    IF start_mode < 3 /\ stop_mode < 3 THEN start_mode * 3 + stop_mode
    ELSE CALIB_KEY_UNSET

(***************************************************************************)
(* ThreadStorage                                                           *)
(***************************************************************************)
StackSlots == 0 .. (MAX_ACTIVE_SLOTS - 1)

NewThreadStorage ==
    [stack_ids    |-> [i \in StackSlots |-> NullId],
     stack_starts |-> [i \in StackSlots |-> 0],
     stack_modes  |-> [i \in StackSlots |-> 0],
     stack_ptr    |-> 0,
     history      |-> [i \in {} |-> NewRingBuffer]]

\* std::map operator[]: a value-initialised buffer is inserted for a new key
MapIndex(history, id) ==
    [i \in (DOMAIN history) \cup {id} |->
        IF i \in DOMAIN history THEN history[i] ELSE NewRingBuffer]

GetOrAdd(s, id) == [s EXCEPT !.history = MapIndex(s.history, id)]

\* history[id] assigned a fresh buffer before the push
HistoryPushFresh(history, id, val, key) ==
    [i \in (DOMAIN history) \cup {id} |->
        IF i = id THEN push(NewRingBuffer, val, key) ELSE history[i]]

\* history[id].push(val, key)
HistoryPush(history, id, val, key) ==
    [i \in (DOMAIN history) \cup {id} |->
        IF i = id THEN push(MapIndex(history, id)[id], val, key) ELSE history[i]]

(***************************************************************************)
(* Recorder<M, TimeFunc>                                                   *)
(***************************************************************************)
StackHasRoom(s) == s.stack_ptr < MAX_ACTIVE_SLOTS

\* (mutant) a dropped scope is counted in the depth
RecorderStartCounting(s, id, M, t) ==
    IF StackHasRoom(s)
    THEN [s EXCEPT !.stack_ids[s.stack_ptr] = id,
                   !.stack_starts[s.stack_ptr] = t,
                   !.stack_modes[s.stack_ptr] = M,
                   !.stack_ptr = s.stack_ptr + 1]
    ELSE [s EXCEPT !.stack_ptr = s.stack_ptr + 1]

\* (mutant) a full stack has its top scope overwritten
RecorderStartOverwrite(s, id, M, t) ==
    LET sp == IF StackHasRoom(s) THEN s.stack_ptr ELSE s.stack_ptr - 1
    IN [s EXCEPT !.stack_ids[sp] = id,
                 !.stack_starts[sp] = t,
                 !.stack_modes[sp] = M,
                 !.stack_ptr = sp + 1]

\* Start(id), t being what TimeFunc() returns (read only when there is room)
RecorderStart(s, id, M, t) ==
    IF StackHasRoom(s)
    THEN [s EXCEPT !.stack_ids[s.stack_ptr] = id,
                   !.stack_starts[s.stack_ptr] = t,
                   !.stack_modes[s.stack_ptr] = M,
                   !.stack_ptr = s.stack_ptr + 1]
    ELSE s

StackNonEmpty(s) == s.stack_ptr > 0

\* the value Stop returns: the raw latency of the popped scope, or 0
StopDelta(s, end) ==
    IF StackNonEmpty(s) THEN CyclesSub(end, s.stack_starts[s.stack_ptr - 1]) ELSE 0

\* (mutant) the sample goes to the scope at the bottom of the stack
RecorderStopBottom(s, x, M, end) ==
    IF StackNonEmpty(s)
    THEN [s EXCEPT !.stack_ptr = s.stack_ptr - 1,
                   !.history = HistoryPush(s.history, s.stack_ids[0],
                                           CyclesSub(end, s.stack_starts[0]),
                                           CalibKey(s.stack_modes[0], M))]
    ELSE s

\* (mutant) an empty stack is popped all the same
RecorderStopUnderflow(s, x, M, end) ==
    IF StackNonEmpty(s)
    THEN LET sp == s.stack_ptr - 1
         IN [s EXCEPT !.stack_ptr = sp,
                      !.history = HistoryPush(s.history, s.stack_ids[sp],
                                              StopDelta(s, end),
                                              CalibKey(s.stack_modes[sp], M))]
    ELSE [s EXCEPT !.stack_ptr = s.stack_ptr - 1]

\* (mutant) the scope is popped only when x is the id on top of the stack
RecorderStopMatching(s, x, M, end) ==
    IF StackNonEmpty(s) /\ s.stack_ids[s.stack_ptr - 1] = x
    THEN LET sp == s.stack_ptr - 1
         IN [s EXCEPT !.stack_ptr = sp,
                      !.history = HistoryPush(s.history, s.stack_ids[sp],
                                              StopDelta(s, end),
                                              CalibKey(s.stack_modes[sp], M))]
    ELSE s

\* (mutant) the stack is not tested for being empty: slot 0 is recorded again
RecorderStopUnchecked(s, x, M, end) ==
    LET sp == IF StackNonEmpty(s) THEN s.stack_ptr - 1 ELSE 0
    IN [s EXCEPT !.stack_ptr = sp,
                 !.history = HistoryPush(s.history, s.stack_ids[sp],
                                         CyclesSub(end, s.stack_starts[sp]),
                                         CalibKey(s.stack_modes[sp], M))]

\* Stop(x), end being what TimeFunc() returned; the parameter x is unnamed in the
\* program and so is not used
RecorderStop(s, x, M, end) ==
    IF StackNonEmpty(s)
    THEN LET sp  == s.stack_ptr - 1
             key == CalibKey(s.stack_modes[sp], M)
         IN [s EXCEPT !.stack_ptr = sp,
                      !.history = HistoryPush(s.history, s.stack_ids[sp],
                                              StopDelta(s, end), key)]
    ELSE s

(***************************************************************************)
(* What one thread's call works on: its ThreadStorage and the timestamp    *)
(* counter, with the history variables the call updates.                   *)
(***************************************************************************)
View(th) ==
    [ts |-> ts[th], tsc |-> tsc, mono |-> mono,
     pushed |-> pushed[th], dropped |-> dropped[th]]

\* Intrinsic::RDTSC / RDTSCP / RDTSCP_LFENCE: the counter moves by j and is read
ReadTSC(V, j) ==
    [V EXCEPT !.tsc = V.tsc + j, !.mono = V.mono /\ j > 0]

\* pushed[t][id]: how many values were pushed into the buffer of id since it was
\* inserted (n), and the last MAX_SAMPLES of them, oldest first (recent)
NoPushes == [n |-> 0, recent |-> << >>]

NoRun == [k |-> 0, m |-> 0]

NoPulses == [n |-> 0, t |-> 0, lookups |-> 0]

NoApplication == [fn |-> "none", arg |-> << >>, out |-> << >>]

\* pc[t] of a thread that is not inside a call.  Inside a call: the statement
\* it is at, the call and its arguments (id, mode, site), the timestamp it read
\* (t), the sample and key it is pushing (val, key), and for a scan the registry
\* entry (k, from 1) and slot (i) it reads next and the output so far (out); for
\* DumpToStream its arguments (unit, data_mode); and whether the thread found
\* the calibrator running in std::call_once and waited for it (waited)
Idle == [at |-> "idle", call |-> "none", id |-> NullId, mode |-> 0, site |-> "none",
         t |-> 0, val |-> 0, key |-> 0, k |-> 0, i |-> 0, out |-> << >>,
         unit |-> "none", data_mode |-> "none", waited |-> FALSE]

LogOf(log, id) == IF id \in DOMAIN log THEN log[id] ELSE NoPushes

LogAdd(l, v) ==
    [n |-> l.n + 1,
     recent |-> IF Len(l.recent) < MAX_SAMPLES THEN Append(l.recent, v)
                ELSE Append(Tail(l.recent), v)]

LogTouch(log, id) == [i \in (DOMAIN log) \cup {id} |-> LogOf(log, i)]

LogAppend(log, id, v) ==
    [i \in (DOMAIN log) \cup {id} |->
        IF i = id THEN LogAdd(LogOf(log, id), v) ELSE log[i]]

\* Recorder::Start on a view
ViewStart(V, id, M, j) ==
    LET R == IF StackHasRoom(V.ts) THEN ReadTSC(V, j) ELSE V
    IN [R EXCEPT !.ts = RecorderStart(V.ts, id, M, R.tsc),
                 !.dropped = V.dropped \/ ~StackHasRoom(V.ts)]

\* Recorder::Stop on a view: the counter is read first, whatever the stack holds
ViewStop(V, x, M, j) ==
    LET R == ReadTSC(V, j)
    IN [R EXCEPT !.ts = RecorderStop(V.ts, x, M, R.tsc),
                 !.pushed = IF StackNonEmpty(V.ts)
                            THEN LogAppend(V.pushed, V.ts.stack_ids[V.ts.stack_ptr - 1],
                                           StopDelta(V.ts, R.tsc))
                            ELSE V.pushed]

\* LATTE_PULSE(id) at a call site whose statics are rb (_l_rb) and lst (_l_last)
PulseFirst(rb) == rb = NullRb

\* LATTE_PULSE recording a sample on its first call as well
ViewPulseEager(V, rb, lst, id, j) ==
    LET R == ReadTSC(V, j)
        b == IF PulseFirst(rb) THEN id ELSE rb
    IN [view |-> [R EXCEPT !.ts.history =
                              HistoryPush(V.ts.history, b,
                                          CyclesSub(R.tsc, lst), CALIB_KEY_PULSE),
                           !.pushed = LogAppend(V.pushed, b, CyclesSub(R.tsc, lst))],
        rb |-> b, lst |-> R.tsc]

ViewPulse(V, rb, lst, id, j) ==
    LET R == ReadTSC(V, j)
    IN IF PulseFirst(rb)
       THEN [view |-> [R EXCEPT !.ts = GetOrAdd(V.ts, id),
                                !.pushed = LogTouch(V.pushed, id)],
             rb |-> id, lst |-> R.tsc]
       ELSE [view |-> [R EXCEPT !.ts.history =
                                   HistoryPush(V.ts.history, rb,
                                               CyclesSub(R.tsc, lst), CALIB_KEY_PULSE),
                                !.pushed = LogAppend(V.pushed, rb, CyclesSub(R.tsc, lst))],
             rb |-> rb, lst |-> R.tsc]

(***************************************************************************)
(* Manager registry and GetThreadStorage                                   *)
(***************************************************************************)
Register(registry, th) == Append(registry, th)

\* GetThreadStorage registering the storage at every call
GetThreadStorageAlways(th) ==
    /\ has_ts' = [has_ts EXCEPT ![th] = TRUE]
    /\ thread_buffers' = Register(thread_buffers, th)

\* GetThreadStorage: the first call of a thread creates and registers its storage
GetThreadStorage(th) ==
    /\ has_ts' = [has_ts EXCEPT ![th] = TRUE]
    /\ thread_buffers' = IF has_ts[th] THEN thread_buffers
                         ELSE Register(thread_buffers, th)

\* the stores of a call going to one storage shared by all threads (a pointer
\* that is static but not thread_local)
CommitShared(th, V) ==
    /\ ts' = [o \in Threads |-> V.ts]
    /\ tsc' = V.tsc
    /\ mono' = V.mono
    /\ pushed' = [pushed EXCEPT ![th] = V.pushed]
    /\ dropped' = [dropped EXCEPT ![th] = V.dropped]

Commit(th, V) ==
    /\ ts' = [ts EXCEPT ![th] = V.ts]
    /\ tsc' = V.tsc
    /\ mono' = V.mono
    /\ pushed' = [pushed EXCEPT ![th] = V.pushed]
    /\ dropped' = [dropped EXCEPT ![th] = V.dropped]

(***************************************************************************)
(* Manager::ExtractRaw and the calibrator                                  *)
(***************************************************************************)
\* _l_rb points to a map node that history.erase has destroyed
Dangles(history, rb) == rb # NullRb /\ rb \notin DOMAIN history

\* what may be at the address of a destroyed node when LATTE_PULSE writes
\* through _l_rb: nothing the program uses (NullRb), or the node of a buffer
\* inserted since (the allocator reuses the memory), here a buffer of the
\* thread or the buffer of CALIB_PULSE; only one choice when the reference does
\* not dangle
Landings(history, rb) ==
    IF Dangles(history, rb)
    THEN {NullRb, CALIB_PULSE} \cup (DOMAIN history)
    ELSE {NullRb}

\* LATTE_PULSE pushing through a dangling _l_rb (undefined behaviour): the push
\* changes the buffer land if it is in the map at that moment, else no buffer
ViewPulseThrough(V, rb, lst, j, land) ==
    LET R == ReadTSC(V, j)
    IN IF land \in DOMAIN V.ts.history
       THEN [view |-> [R EXCEPT !.ts.history =
                                   HistoryPush(V.ts.history, land,
                                               CyclesSub(R.tsc, lst), CALIB_KEY_PULSE),
                                !.pushed = LogAppend(V.pushed, land,
                                                     CyclesSub(R.tsc, lst))],
             rb |-> rb, lst |-> R.tsc]
       ELSE [view |-> R, rb |-> rb, lst |-> R.tsc]

\* the scan taking every slot, empty or not
AllSlotsFrom(data, i) == [k \in 1 .. (MAX_SAMPLES - i) |-> data[i + k - 1]]

\* for (i < MAX_SAMPLES) if (data[i] > 0) push_back(data[i]), from slot i on
RECURSIVE NonZeroFrom(_, _)
NonZeroFrom(data, i) ==
    IF i >= MAX_SAMPLES THEN << >>
    ELSE (IF data[i] > 0 THEN <<data[i]>> ELSE << >>) \o NonZeroFrom(data, i + 1)

\* ExtractRaw returning at the first registered storage that has a buffer of id
RECURSIVE ExtractFromFirst(_, _, _, _)
ExtractFromFirst(registry, storages, id, k) ==
    IF k > Len(registry) THEN << >>
    ELSE IF id \in DOMAIN storages[registry[k]].history
         THEN NonZeroFrom(storages[registry[k]].history[id].data, 0)
         ELSE ExtractFromFirst(registry, storages, id, k + 1)

\* ExtractRaw(id) over the registry from its k-th entry, storages being the
\* ThreadStorage of every thread
RECURSIVE ExtractFrom(_, _, _, _)
ExtractFrom(registry, storages, id, k) ==
    IF k > Len(registry) THEN << >>
    ELSE (IF id \in DOMAIN storages[registry[k]].history
          THEN NonZeroFrom(storages[registry[k]].history[id].data, 0)
          ELSE << >>) \o ExtractFrom(registry, storages, id, k + 1)

ExtractRaw(registry, storages, id) == ExtractFrom(registry, storages, id, 1)

\* std::numeric_limits<Cycles>::max()
CyclesMax == CyclesMod - 1

RECURSIVE SeqMin(_)
SeqMin(q) ==
    IF Len(q) = 1 THEN q[1]
    ELSE CHOOSE r \in {IF q[1] < m THEN q[1] ELSE m : m \in {SeqMin(Tail(q))}} : TRUE

RECURSIVE Insert(_, _)
Insert(q, v) ==
    IF q = << >> THEN <<v>>
    ELSE IF v <= q[1] THEN <<v>> \o q
    ELSE <<q[1]>> \o Insert(Tail(q), v)

\* std::sort, ascending
RECURSIVE SortAsc(_)
SortAsc(q) ==
    IF q = << >> THEN << >>
    ELSE CHOOSE r \in {Insert(s, q[1]) : s \in {SortAsc(Tail(q))}} : TRUE

\* the minimum of raw[i+1 .. i+BUCKET] over the values 0 < v < max, else max
RECURSIVE BucketMin(_, _, _, _)
BucketMin(raw, i, n, m) ==
    IF n = 0 THEN m
    ELSE CHOOSE r \in {BucketMin(raw, i + 1, n - 1, m1) :
                        m1 \in {IF raw[i + 1] > 0 /\ raw[i + 1] < m
                                 THEN raw[i + 1] ELSE m}} : TRUE

RECURSIVE BucketMins(_, _, _)
BucketMins(raw, i, full) ==
    IF i >= full THEN << >>
    ELSE LET m == BucketMin(raw, i, BUCKET, CyclesMax)
         IN (IF m # CyclesMax THEN <<m>> ELSE << >>) \o BucketMins(raw, i + BUCKET, full)

\* BUMED adding the two middle minima in Cycles (64-bit) arithmetic
BUMEDWrapping(raw) ==
    IF raw = << >> THEN 0
    ELSE LET full == (Len(raw) \div BUCKET) * BUCKET
             mins == SortAsc(BucketMins(raw, 0, full))
             n    == Len(mins)
         IN IF full = 0 \/ n = 0 THEN SeqMin(raw)
            ELSE IF n % 2 = 1 THEN mins[(n \div 2) + 1]
            ELSE ((mins[n \div 2] + mins[(n \div 2) + 1] + 1) % CyclesMod) \div 2

\* the lambda BUMED of Manager::Calibrate, raw being ExtractRaw(id)
BUMED(raw) ==
    IF raw = << >> THEN 0
    ELSE LET full == (Len(raw) \div BUCKET) * BUCKET
             mins == SortAsc(BucketMins(raw, 0, full))
             n    == Len(mins)
         IN IF full = 0 \/ n = 0 THEN SeqMin(raw)
            ELSE IF n % 2 = 1 THEN mins[(n \div 2) + 1]
            ELSE ((mins[n \div 2] + mins[(n \div 2) + 1] + 1) \div 2) % CyclesMod

\* one Start/Stop pair of the permutation loop
CalibPair(V, perm, j) ==
    CHOOSE R \in {ViewStop(S, perm[3], perm[2], j) :
                   S \in {ViewStart(V, perm[3], perm[1], j)}} : TRUE

\* (each step of the loops below is evaluated, as W, before the next one is
\* taken)
RECURSIVE CalibPairsFrom(_, _, _)
CalibPairsFrom(V, k, j) ==
    IF k > Len(CalibPerms) THEN V
    ELSE CHOOSE R \in {CalibPairsFrom(W, k + 1, j) :
                        W \in {CalibPair(V, CalibPerms[k], j)}} : TRUE

\* PERMUTATION OVERHEAD: i iterations of the nine pairs
RECURSIVE CalibPermLoop(_, _, _)
CalibPermLoop(V, i, j) ==
    IF i = 0 THEN V
    ELSE CHOOSE R \in {CalibPermLoop(W, i - 1, j) :
                        W \in {CalibPairsFrom(V, 1, j)}} : TRUE

\* LATTE_PULSE("xxxx") in the loop, land being what a dangling _l_rb points to
CalibPulse(S, rb, lst, j, land) ==
    IF Dangles(S.ts.history, rb)
    THEN ViewPulseThrough(S, rb, lst, j, land)
    ELSE ViewPulse(S, rb, lst, CalibScratch, j)

\* PULSE OVERHEAD: i iterations of Fast::Start, LATTE_PULSE("xxxx"), Mid::Stop
RECURSIVE CalibPulseLoop(_, _, _, _)
CalibPulseLoop(P, i, j, land) ==
    IF i = 0 THEN P
    ELSE CHOOSE R \in
            {CalibPulseLoop(W, i - 1, j, land) :
                W \in {[Q EXCEPT !.view = ViewStop(Q.view, CALIB_PULSE, Mid, j)] :
                       Q \in {CalibPulse(S, P.rb, P.lst, j, land) :
                              S \in {ViewStart(P.view, CALIB_PULSE, Fast, j)}}}} : TRUE

CalibIters == MAX_SAMPLES + WARMUP_ITERS

\* the cleanup erasing the ten calibration labels only
EraseCalibLabels(f) == [i \in (DOMAIN f) \ (CalibIds \ {CalibScratch}) |-> f[i]]

\* std::map::erase of the calibration ids
EraseCalib(f) == [i \in (DOMAIN f) \ CalibIds |-> f[i]]

\* the key each calibration id is measured for
CalibKeyOf(k) == CalibKey(CalibPerms[k][1], CalibPerms[k][2])

\* calib_offsets after the BUMED assignments
MeasuredOffsets(registry, storages) ==
    [key \in 0 .. (CALIB_KEY_COUNT - 1) |->
        IF key = CALIB_KEY_PULSE
        THEN BUMED(ExtractRaw(registry, storages, CALIB_PULSE))
        ELSE LET k == CHOOSE k \in 1 .. Len(CalibPerms) : CalibKeyOf(k) = key
             IN BUMED(ExtractRaw(registry, storages, CalibPerms[k][3]))]

\* TIME CALIBRATION: c1 and c2 are the two RDTSC reads, ns the elapsed wall time
CyclesPerNs(c1, c2, ns) ==
    IF ns > 0 THEN [num |-> CyclesSub(c2, c1), den |-> ns] ELSE [num |-> 1, den |-> 1]

\* CalibrationOffset reducing the key into the table instead of rejecting it
CalibrationOffsetWrapped(key) ==
    IF ~calib_valid[key % CALIB_KEY_COUNT] THEN 0
    ELSE calib_offsets[key % CALIB_KEY_COUNT]

\* Manager::CalibrationOffset
CalibrationOffset(key) ==
    IF key >= CALIB_KEY_COUNT THEN 0
    ELSE IF ~calib_valid[key] THEN 0
    ELSE calib_offsets[key]

(***************************************************************************)
(* Initial state: no thread has made a call                                *)
(***************************************************************************)
Init ==
    /\ ts = [t \in Threads |-> NewThreadStorage]
    /\ has_ts = [t \in Threads |-> FALSE]
    /\ thread_buffers = << >>
    /\ pulse_rb = [t \in Threads |-> [s \in AllSites |-> NullRb]]
    /\ pulse_last = [t \in Threads |-> [s \in AllSites |-> 0]]
    /\ tsc = TscInit
    /\ calibrate_once = FALSE
    /\ cycles_per_ns = [num |-> 1, den |-> 1]
    /\ calib_offsets = [k \in 0 .. (CALIB_KEY_COUNT - 1) |-> 0]
    /\ calib_valid = [k \in 0 .. (CALIB_KEY_COUNT - 1) |-> FALSE]
    /\ mono = TRUE
    /\ calls = [t \in Threads |-> << >>]
    /\ nested = [t \in Threads |-> TRUE]
    /\ dropped = [t \in Threads |-> FALSE]
    /\ pushed = [t \in Threads |-> [i \in {} |-> NoPushes]]
    /\ pairs = [t \in Threads |-> 0]
    /\ run = [t \in Threads |-> NoRun]
    /\ last = [op |-> "none", th |-> 0, id |-> NullId, mode |-> 0, depth |-> 0]
    /\ ops = 0
    /\ cals = 0
    /\ snap = [id |-> NullId, out |-> << >>]
    /\ report = [data_mode |-> "none", series |-> [i \in {} |-> << >>]]
    /\ started = [t \in Threads |-> [i \in UserIds |-> 0]]
    /\ pulsed = [t \in Threads |-> [i \in UserIds |-> NoPulses]]
    /\ applied = NoApplication
    /\ mutex = 0
    /\ pc = [t \in Threads |-> Idle]

(***************************************************************************)
(* The hot-path calls                                                      *)
(***************************************************************************)
\* {Fast,Mid,Hard}::Start(id) on thread th
StartCall(th, id, M, J) ==
    \E j \in J :
        /\ tsc + j >= 0
        /\ GetThreadStorage(th)
        /\ Commit(th, ViewStart(View(th), id, M, j))
        /\ calls' = [calls EXCEPT ![th] =
                        Append(@, [id |-> id,
                                   start |-> IF StackHasRoom(ts[th]) THEN tsc + j ELSE tsc,
                                   dropped |-> ~StackHasRoom(ts[th])])]
        /\ run' = [run EXCEPT ![th] =
                        IF StackHasRoom(ts[th]) THEN NoRun ELSE [@ EXCEPT !.k = @ + 1]]
        /\ last' = [op |-> "Start", th |-> th, id |-> id, mode |-> M,
                    depth |-> ts[th].stack_ptr]
        /\ ops' = ops + 1
        /\ started' = [started EXCEPT ![th][id] = @ + 1]
        /\ UNCHANGED <<pulse_rb, pulse_last, nested, pairs, cals, pulsed, snap, report>>
        /\ UNCHANGED fine
        /\ UNCHANGED <<calibrate_once, cycles_per_ns, calib_offsets, calib_valid>>

\* {Fast,Mid,Hard}::Stop(x) on thread th
StopCall(th, x, M, J) ==
    \E j \in J :
        /\ tsc + j >= 0
        /\ GetThreadStorage(th)
        /\ Commit(th, ViewStop(View(th), x, M, j))
        /\ calls' = [calls EXCEPT ![th] =
                        IF @ = << >> THEN @ ELSE SubSeq(@, 1, Len(@) - 1)]
        /\ nested' = [nested EXCEPT ![th] =
                        /\ @
                        /\ calls[th] # << >>
                        /\ calls[th][Len(calls[th])].id = x]
        /\ pairs' = [pairs EXCEPT ![th] =
                        IF calls[th] # << >> /\ calls[th][Len(calls[th])].id = x
                        THEN @ + 1 ELSE @]
        /\ run' = [run EXCEPT ![th] = IF @.k > 0 THEN [@ EXCEPT !.m = @ + 1] ELSE @]
        /\ last' = [op |-> "Stop", th |-> th, id |-> x, mode |-> M,
                    depth |-> ts[th].stack_ptr]
        /\ ops' = ops + 1
        /\ UNCHANGED <<pulse_rb, pulse_last, cals, started, pulsed, snap, report>>
        /\ UNCHANGED fine
        /\ UNCHANGED <<calibrate_once, cycles_per_ns, calib_offsets, calib_valid>>

\* LATTE_PULSE(id) at call site site on thread th
PulseCall(th, site, id, J) ==
    \E j \in J :
        /\ tsc + j >= 0
        /\ GetThreadStorage(th)
        /\ LET P == ViewPulse(View(th), pulse_rb[th][site], pulse_last[th][site], id, j)
           IN /\ Commit(th, P.view)
              /\ pulse_rb' = [pulse_rb EXCEPT ![th][site] = P.rb]
              /\ pulse_last' = [pulse_last EXCEPT ![th][site] = P.lst]
        /\ run' = [run EXCEPT ![th] = NoRun]
        /\ last' = [op |-> "Pulse", th |-> th, id |-> id, mode |-> Fast,
                    depth |-> ts[th].stack_ptr]
        /\ ops' = ops + 1
        /\ pulsed' = [pulsed EXCEPT ![th][id] =
                        [n |-> @.n + 1, t |-> tsc + j,
                         lookups |-> @.lookups +
                            IF PulseFirst(pulse_rb[th][site]) THEN 1 ELSE 0]]
        /\ UNCHANGED <<calls, nested, pairs, cals, started, snap, report>>
        /\ UNCHANGED fine
        /\ UNCHANGED <<calibrate_once, cycles_per_ns, calib_offsets, calib_valid>>

\* Manager::Calibrate on thread th, every counter read advancing it by j and the
\* wall clock measuring ns
\* the two loops of Manager::Calibrate, from the view V and the statics of its
\* LATTE_PULSE site
CalibLoops(V, rb, lst, j, land) ==
    CalibPulseLoop([view |-> CalibPermLoop(V, CalibIters, j), rb |-> rb, lst |-> lst],
                   CalibIters, j, land)

\* (NS: the elapsed times the wall clock may measure)
Calibrate(th, j, NS) ==
    \E land \in Landings(ts[th].history, pulse_rb[th][CalibSite]) :
    \E P \in {CalibLoops(ReadTSC(ReadTSC(View(th), j), j),
                          pulse_rb[th][CalibSite], pulse_last[th][CalibSite], j,
                          land)} :
    \E registry \in {IF has_ts[th] THEN thread_buffers
                      ELSE Register(thread_buffers, th)} :
    \E storages \in {[ts EXCEPT ![th] = P.view.ts]} :
       /\ GetThreadStorage(th)
       /\ calib_offsets' = MeasuredOffsets(registry, storages)
       /\ calib_valid' = [k \in 0 .. (CALIB_KEY_COUNT - 1) |-> TRUE]
       /\ Commit(th, [P.view EXCEPT !.ts.history = EraseCalib(P.view.ts.history),
                                    !.pushed = EraseCalib(P.view.pushed)])
       /\ pulse_rb' = [pulse_rb EXCEPT ![th][CalibSite] = P.rb]
       /\ pulse_last' = [pulse_last EXCEPT ![th][CalibSite] = P.lst]
       /\ \E ns \in NS : cycles_per_ns' = CyclesPerNs(tsc + j, tsc + j + j, ns)

\* Manager::Calibrate() called directly on thread th (it is a public member):
\* no std::call_once, and the latch is left as it is
CalibrateCall(th) ==
    /\ \E j \in CalJumps : Calibrate(th, j, WallNs)
    /\ run' = [run EXCEPT ![th] = NoRun]
    /\ last' = [op |-> "CalibrateDirect", th |-> th, id |-> NullId, mode |-> 0,
                depth |-> ts[th].stack_ptr]
    /\ cals' = cals + 1
    /\ UNCHANGED <<calibrate_once, calls, nested, pairs, ops, started, pulsed, snap>>
    /\ UNCHANGED fine

\* EnsureCalibrated running the calibrator at every call (no call_once)
EnsureCalibratedCallAlways(th) ==
    /\ \E j \in CalJumps : Calibrate(th, j, WallNs)
    /\ calibrate_once' = TRUE
    /\ run' = [run EXCEPT ![th] = NoRun]
    /\ last' = [op |-> "Calibrate", th |-> th, id |-> NullId, mode |-> 0,
                depth |-> ts[th].stack_ptr]
    /\ cals' = cals + 1
    /\ UNCHANGED <<calls, nested, pairs, ops, started, pulsed, snap>>
    /\ UNCHANGED fine

\* Manager::EnsureCalibrated (LATTE_CALIBRATE) on thread th: std::call_once
EnsureCalibratedCall(th) ==
    /\ IF calibrate_once
       THEN UNCHANGED <<ts, has_ts, thread_buffers, pulse_rb, pulse_last, tsc,
                        cycles_per_ns, calib_offsets, calib_valid,
                        mono, dropped, pushed>>
       ELSE \E j \in CalJumps : Calibrate(th, j, WallNs)
    /\ calibrate_once' = TRUE
    /\ run' = [run EXCEPT ![th] = NoRun]
    /\ last' = [op |-> "Calibrate", th |-> th, id |-> NullId, mode |-> 0,
                depth |-> ts[th].stack_ptr]
    /\ cals' = cals + 1
    /\ UNCHANGED <<calls, nested, pairs, ops, started, pulsed, snap>>
    /\ UNCHANGED fine

\* Snapshot looking the buffers up with operator[] instead of find
SnapshotCallInserting(id) ==
    /\ snap' = [id |-> id, out |-> ExtractRaw(thread_buffers, ts, id)]
    /\ ts' = [t \in Threads |-> IF has_ts[t] THEN GetOrAdd(ts[t], id) ELSE ts[t]]
    /\ UNCHANGED <<has_ts, thread_buffers, pulse_rb, pulse_last, tsc,
                   calibrate_once, cycles_per_ns, calib_offsets, calib_valid,
                   mono, calls, nested, dropped, pushed, pairs, run, last, ops, cals,
                   started, pulsed, report>>
    /\ UNCHANGED fine

\* Snapshot(id): Manager::ExtractRaw(id), the Manager lock held for the scan
SnapshotCall(id) ==
    /\ snap' = [id |-> id, out |-> ExtractRaw(thread_buffers, ts, id)]
    /\ UNCHANGED <<ts, has_ts, thread_buffers, pulse_rb, pulse_last, tsc,
                   calibrate_once, cycles_per_ns, calib_offsets, calib_valid,
                   mono, calls, nested, dropped, pushed, pairs, run, last, ops, cals,
                   started, pulsed, report>>
    /\ UNCHANGED fine

(***************************************************************************)
(* Internal::CleanData.  The samples are doubles holding whole numbers of  *)
(* cycles; a cutoff, which may be a multiple of one half, is held as twice *)
(* its value.                                                              *)
(***************************************************************************)
\* twice std::numeric_limits<double>::max(): above twice every sample and above
\* twice every cutoff computed from samples
DBL_MAX == 16 * CyclesMod

\* b_max after the loop over values[j], i <= j < end (0-based), from b_max
RECURSIVE BucketMax(_, _, _, _)
BucketMax(values, i, end, b_max) ==
    IF i >= end THEN b_max
    ELSE BucketMax(values, i + 1, end,
                   IF values[i + 1] > b_max THEN values[i + 1] ELSE b_max)

\* bucket_maxes: the maxima of the buckets from index i on, a bucket shorter
\* than BUCKET_SIZE / 2 being skipped
RECURSIVE BucketMaxes(_, _)
BucketMaxes(values, i) ==
    IF i >= Len(values) THEN << >>
    ELSE LET end == IF i + BUCKET_SIZE < Len(values) THEN i + BUCKET_SIZE
                    ELSE Len(values)
         IN (IF (end - i) < BUCKET_SIZE \div 2 THEN << >>
             ELSE <<BucketMax(values, i, end, 0)>>)
            \o BucketMaxes(values, i + BUCKET_SIZE)

\* std::max_element
RECURSIVE SeqMax(_)
SeqMax(q) ==
    IF Len(q) = 1 THEN q[1]
    ELSE LET m == SeqMax(Tail(q)) IN IF q[1] > m THEN q[1] ELSE m

\* the cutoff with q3 taken at the middle of the sorted maxima
CutoffQ3AtHalf(bucket_maxes) ==
    IF Len(bucket_maxes) >= 4
    THEN LET sorted == SortAsc(bucket_maxes)
             n      == Len(sorted)
             q1     == sorted[(n \div 4) + 1]
             q3     == sorted[(n \div 2) + 1]
             iqr    == q3 - q1
         IN IF iqr = 0 THEN 3 * q3 ELSE 2 * (q3 + 3 * iqr)
    ELSE IF bucket_maxes # << >> THEN 3 * SeqMax(bucket_maxes)
    ELSE DBL_MAX

\* twice the cutoff computed from bucket_maxes
Cutoff(bucket_maxes) ==
    IF Len(bucket_maxes) >= 4
    THEN LET sorted == SortAsc(bucket_maxes)
             n      == Len(sorted)
             q1     == sorted[(n \div 4) + 1]
             q3     == sorted[((n * 3) \div 4) + 1]
             iqr    == q3 - q1
         IN IF iqr = 0 THEN 3 * q3 ELSE 2 * (q3 + 3 * iqr)
    ELSE IF bucket_maxes # << >> THEN 3 * SeqMax(bucket_maxes)
    ELSE DBL_MAX

\* v > cutoff
AboveCutoff(v, cutoff) == 2 * v > cutoff

\* the filter loop over values[i+1 ..]: a sample above the cutoff is counted in
\* bypass and skipped, the others are appended to filtered
RECURSIVE Filter(_, _, _, _)
Filter(values, i, cutoff, acc) ==
    IF i >= Len(values) THEN acc
    ELSE LET v == values[i + 1]
             a == IF AboveCutoff(v, cutoff)
                  THEN [acc EXCEPT !.bypass = acc.bypass + 1]
                  ELSE [acc EXCEPT !.filtered = Append(acc.filtered, v)]
         IN IF a.bypass >= 0 THEN Filter(values, i + 1, cutoff, a) ELSE acc

\* out after the filter loop left f, with the fallback to the input when
\* nothing was kept, before the sort
Filtered(values, cutoff, f) ==
    IF f.filtered = << >>
    THEN [values |-> values, bypass |-> 0, cutoff |-> cutoff]
    ELSE [values |-> f.filtered, bypass |-> f.bypass, cutoff |-> cutoff]

\* CleanData returning the kept samples in the order of the input
CleanDataKeepOrder(values) ==
    IF values = << >> THEN [values |-> << >>, bypass |-> 0, cutoff |-> DBL_MAX]
    ELSE \* (the cutoff and the result of the loop are bound once)
         CHOOSE out \in
             {Filtered(values, cutoff,
                       Filter(values, 0, cutoff, [filtered |-> << >>, bypass |-> 0])) :
                  cutoff \in {Cutoff(BucketMaxes(values, 0))}} : TRUE

\* Internal::CleanData(values): the CleanResult (cutoff as twice its value)
CleanData(values) ==
    IF values = << >> THEN [values |-> << >>, bypass |-> 0, cutoff |-> DBL_MAX]
    ELSE CHOOSE out \in
             {[o EXCEPT !.values = SortAsc(o.values)] :
                  o \in {Filtered(values, cutoff,
                                  Filter(values, 0, cutoff,
                                         [filtered |-> << >>, bypass |-> 0])) :
                             cutoff \in {Cutoff(BucketMaxes(values, 0))}}} : TRUE

\* DataClean(values), the public entry of the cleaner
DataClean(values) == CleanData(values)

(***************************************************************************)
(* DumpToStream: the collection of the series and the offset subtraction   *)
(***************************************************************************)
\* the ids of global_data: every id some registered storage has a buffer of
DumpIds ==
    UNION {DOMAIN ts[thread_buffers[k]].history : k \in 1 .. Len(thread_buffers)}

\* series.values of id: the non-zero slots, storage by storage in registry order
SeriesValues(id) == ExtractFrom(thread_buffers, ts, id, 1)

\* series.calib_key of id after the storages from the k-th of the registry on
\* were merged into key
RECURSIVE SeriesKeyFrom(_, _, _)
SeriesKeyFrom(id, k, key) ==
    IF k > Len(thread_buffers) THEN key
    ELSE LET h == ts[thread_buffers[k]].history
         IN IF id \notin DOMAIN h THEN SeriesKeyFrom(id, k + 1, key)
            ELSE SeriesKeyFrom(id, k + 1,
                               IF key = CALIB_KEY_UNSET THEN h[id].calib_key
                               ELSE IF key # h[id].calib_key THEN CALIB_KEY_MIXED
                               ELSE key)

SeriesKey(id) == SeriesKeyFrom(id, 1, CALIB_KEY_UNSET)

\* the subtraction without the clamp, in Cycles arithmetic
AdjustWrapping(v, off) == CyclesSub(v, off)

\* double x = v - off; if (x < 0.0) x = 0.0;
Adjust(v, off) ==
    LET x == v - off
    IN IF x < 0 THEN 0 ELSE x

\* the offset subtracted from the series of id
SeriesOffset(id, data_mode) ==
    IF data_mode = "Calibrated" THEN CalibrationOffset(SeriesKey(id)) ELSE 0

\* adjusted: the samples of the series of id after the offset subtraction
Adjusted(id, data_mode) ==
    LET values == SeriesValues(id)
        off    == SeriesOffset(id, data_mode)
    IN [k \in 1 .. Len(values) |-> Adjust(values[k], off)]

\* what DumpToStream(unit, data_mode) reports: a row for every series that has
\* samples, with the tag, the samples, the offset, the adjusted samples and the
\* result of the cleaner (SAMPLES is the length of clean.values, MIN and MAX are
\* its ends, BYPASS is clean.bypass)
Report(data_mode) ==
    [data_mode |-> data_mode,
     series |-> [id \in {i \in DumpIds : SeriesValues(i) # << >>} |->
                    \* (series.values after the subtraction is bound once)
                    CHOOSE row \in
                        {[calib_key |-> SeriesKey(id),
                          values |-> SeriesValues(id),
                          off |-> SeriesOffset(id, data_mode),
                          adjusted |-> adjusted,
                          clean |-> CleanData(adjusted)] :
                             adjusted \in {Adjusted(id, data_mode)}} : TRUE]]

\* DumpToStream(oss, unit, data_mode) called by thread th
DumpCall(th, unit, data_mode) ==
    /\ IF unit = "Time" \/ data_mode = "Calibrated"
       THEN EnsureCalibratedCall(th)
       ELSE UNCHANGED <<ts, has_ts, thread_buffers, pulse_rb, pulse_last, tsc,
                        calibrate_once, cycles_per_ns, calib_offsets, calib_valid,
                        mono, calls, nested, dropped, pushed, pairs, run, last, ops,
                        cals, snap, started, pulsed, applied, mutex, pc>>
    /\ report' = Report(data_mode)'

Start == \E th \in Threads : \E id \in StartIds(th), M \in StartModes(th) :
            ops < MaxOps /\ StartCall(th, id, M, Jumps(th))

Stop == \E th \in Threads : \E x \in StopArgs(th), M \in StopModes(th) :
            ops < MaxOps /\ StopCall(th, x, M, Jumps(th))

Pulse == \E th \in Threads : \E site \in PulseSites(th), id \in StartIds(th) :
            ops < MaxOps /\ PulseCall(th, site, id, Jumps(th))

Next == Start \/ Stop \/ Pulse

Spec == Init /\ [][Next]_vars

(***************************************************************************)
(* Two threads recording and calibrating                                   *)
(***************************************************************************)
CalStart == \E th \in Threads : \E id \in StartIds(th) :
                ops < MaxOps /\ StartCall(th, id, Mid, TickJumps)

CalStop == \E th \in Threads :
                ops < MaxOps /\ StopCall(th, "A", Hard, TickJumps)

CalPulse == ops < MaxOps /\ PulseCall(1, "s1", "B", TickJumps)

EnsureCalibrated == \E th \in Threads :
                        /\ cals < MaxCals
                        /\ EnsureCalibratedCall(th)
                        /\ UNCHANGED report

NextCal == CalStart \/ CalStop \/ CalPulse \/ EnsureCalibrated

SpecCal == Init /\ [][NextCal]_vars

(***************************************************************************)
(* Two threads recording, calibrating through EnsureCalibrated and calling *)
(* the public Manager::Calibrate()                                         *)
(***************************************************************************)
DirectCalibrate == \E th \in Threads :
                        /\ cals < MaxCals
                        /\ CalibrateCall(th)
                        /\ UNCHANGED report

DirectStart == \E th \in Threads :
                ops < MaxDirectOps /\ StartCall(th, "A", Mid, TickJumps)

DirectStop == \E th \in Threads :
                ops < MaxDirectOps /\ StopCall(th, "A", Hard, TickJumps)

DirectPulse == ops < MaxDirectOps /\ PulseCall(1, "s1", "B", TickJumps)

NextDirect ==
    \/ DirectStart \/ DirectStop \/ DirectPulse \/ EnsureCalibrated \/ DirectCalibrate

SpecDirect == Init /\ [][NextDirect]_vars

(***************************************************************************)
(* One thread nesting scopes of two ids past the depth of the scope stack  *)
(***************************************************************************)
NestStart == \E id \in UserIds :
                ops < MaxNestOps /\ StartCall(1, id, Fast, StallJumps)

NestStop == \E x \in UserIds \cup {NullId} :
                ops < MaxNestOps /\ StopCall(1, x, Fast, StallJumps)

NextNest == NestStart \/ NestStop

SpecNest == Init /\ [][NextNest]_vars

(***************************************************************************)
(* One thread recording one id until its ring buffer has wrapped: a loop   *)
(* of Start("A"); Stop("A") pairs, with LATTE_PULSE("A") between pairs.    *)
(***************************************************************************)
RingStart ==
    /\ ops < MaxRingOps
    /\ calls[1] = << >>
    /\ StartCall(1, "A", Fast, {1})

RingStop ==
    /\ ops < MaxRingOps
    /\ calls[1] # << >>
    /\ StopCall(1, "A", Fast, StallJumps \cup ForwardJumps)

RingPulse ==
    /\ ops < MaxRingOps
    /\ calls[1] = << >>
    /\ PulseCall(1, "s1", "A", StallJumps)

NextRing == RingStart \/ RingStop \/ RingPulse

SpecRing == Init /\ [][NextRing]_vars

(***************************************************************************)
(* One thread recording one id in several mode pairs and by LATTE_PULSE,   *)
(* while the counter ticks, until its ring buffer has wrapped.             *)
(***************************************************************************)
TagStart == \E M \in StartModes(1) :
    /\ ops < MaxRingOps
    /\ calls[1] = << >>
    /\ StartCall(1, "A", M, TickJumps)

TagStop == \E M \in StopModes(1) :
    /\ ops < MaxRingOps
    /\ calls[1] # << >>
    /\ StopCall(1, "A", M, TickJumps)

TagPulse ==
    /\ ops < MaxRingOps
    /\ calls[1] = << >>
    /\ PulseCall(1, "s1", "A", TickJumps)

NextTag == TagStart \/ TagStop \/ TagPulse

SpecTag == Init /\ [][NextTag]_vars

(***************************************************************************)
(* Two threads recording scopes while snapshots are taken                  *)
(***************************************************************************)
SnapStart == \E th \in Threads : \E id \in StartIds(th) :
                ops < MaxSnapOps /\ StartCall(th, id, Fast, TickJumps)

SnapStop == \E th \in Threads :
                ops < MaxSnapOps /\ StopCall(th, NullId, Fast, TscJumps)

Snapshot == \E id \in UserIds : SnapshotCall(id)

NextSnap == SnapStart \/ SnapStop \/ Snapshot

SpecSnap == Init /\ [][NextSnap]_vars

(***************************************************************************)
(* Two threads recording scopes while reports are dumped                   *)
(***************************************************************************)
DumpStart == \E th \in Threads :
                ops < MaxDumpOps /\ StartCall(th, "B", Mid, TickJumps)

DumpStop == \E th \in Threads : \E M \in {Mid, Hard} :
                ops < MaxDumpOps /\ StopCall(th, NullId, M, DumpJumps)

Dump == \E th \in Threads : \E unit \in {"Cycle", "Time"}, data_mode \in {"Raw", "Calibrated"} :
            /\ cals < MaxCals
            /\ DumpCall(th, unit, data_mode)

NextDump == DumpStart \/ DumpStop \/ Dump

SpecDump == Init /\ [][NextDump]_vars

(***************************************************************************)
(* Two threads recording scopes, Snapshot and DumpToStream(Cycle, Raw)     *)
(***************************************************************************)
ReadStart == \E th \in Threads : \E id \in StartIds(th) :
                ops < MaxSnapOps /\ StartCall(th, id, Fast, TickJumps)

ReadStop == \E th \in Threads :
                ops < MaxSnapOps /\ StopCall(th, NullId, Fast, TickJumps)

ReadSnapshot == \E id \in UserIds : SnapshotCall(id)

ReadDump == \E th \in Threads : DumpCall(th, "Cycle", "Raw")

NextRead == ReadStart \/ ReadStop \/ ReadSnapshot \/ ReadDump

SpecRead == Init /\ [][NextRead]_vars

(***************************************************************************)
(* Two threads recording one id, in different mode pairs and by            *)
(* LATTE_PULSE, and calibrated reports                                     *)
(***************************************************************************)
MixStart == \E th \in Threads :
                /\ ops < MaxMixOps
                /\ calls[th] = << >>
                /\ StartCall(th, "B", Mid, TickJumps)

MixStop == \E th \in Threads :
                /\ ops < MaxMixOps
                /\ StopCall(th, "B", IF th = 1 THEN Hard ELSE Mid, {3})

MixPulse == ops < MaxMixOps /\ PulseCall(2, "s1", "B", TickJumps)

MixDump == cals < MaxCals /\ DumpCall(1, "Cycle", "Calibrated")

NextMix == MixStart \/ MixStop \/ MixPulse \/ MixDump

SpecMix == Init /\ [][NextMix]_vars

(***************************************************************************)
(* Start, Stop, LATTE_PULSE and Snapshot executed statement by statement,  *)
(* the statements of the threads interleaved.  Manager::mutex is taken by  *)
(* Register and by ExtractRaw (std::lock_guard); the hot path takes it     *)
(* nowhere else.  The counter ticks at every read.                         *)
(***************************************************************************)
\* the variables no statement of these calls writes
StepFrame ==
    UNCHANGED <<calibrate_once, cycles_per_ns, calib_offsets, calib_valid,
                mono, calls, nested, dropped, pushed, pairs, run, last, cals,
                report, started, pulsed, applied>>

Goto(th, p) == pc' = [pc EXCEPT ![th] = p]

\* a lock_guard constructed without locking the mutex
LockGuardNone(th) == mutex' = mutex

\* a lock_guard whose scope never ends
UnlockNever(th) == mutex' = mutex

\* std::lock_guard<std::mutex> lock(mutex): the thread blocks while it is held
LockGuard(th) == mutex = 0 /\ mutex' = th

\* the end of the scope of the lock_guard
Unlock(th) == mutex' = 0

\* GetThreadStorage creating and registering a storage at every call
AfterStorageAlways(th, body) == "Register.lock"

\* where GetThreadStorage continues: at the body of the call when the thread has
\* its storage, else at Manager::Register
AfterStorage(th, body) == IF has_ts[th] THEN body ELSE "Register.lock"

\* the body of the call a thread has come to after GetThreadStorage
BodyOf(call) ==
    IF call = "Start" THEN "Start.record"
    ELSE IF call = "Stop" THEN "Stop.pop"
    ELSE IF call = "Pulse" THEN "Pulse.first"
    ELSE "Calibrate.loops"

\* Start(id): ThreadStorage* ts = GetThreadStorage()
StepStart(th, id, M) ==
    /\ pc[th].at = "idle"
    /\ ops' = ops + 1
    /\ Goto(th, [Idle EXCEPT !.at = AfterStorage(th, "Start.record"),
                             !.call = "Start", !.id = id, !.mode = M])
    /\ UNCHANGED <<ts, has_ts, thread_buffers, pulse_rb, pulse_last, tsc, snap, mutex>>
    /\ StepFrame

\* Stop(x): Cycles end = TimeFunc(); ThreadStorage* ts = GetThreadStorage()
StepStop(th, x, M) ==
    /\ pc[th].at = "idle"
    /\ ops' = ops + 1
    /\ tsc' = tsc + 1
    /\ Goto(th, [Idle EXCEPT !.at = AfterStorage(th, "Stop.pop"),
                             !.call = "Stop", !.id = x, !.mode = M, !.t = tsc + 1])
    /\ UNCHANGED <<ts, has_ts, thread_buffers, pulse_rb, pulse_last, snap, mutex>>
    /\ StepFrame

\* LATTE_PULSE(id) at a call site: the test of _l_rb; on the first execution
\* GetBuffer(id) follows, on the others the counter is read and the push begins
StepPulse(th, site, id) ==
    /\ pc[th].at = "idle"
    /\ ops' = ops + 1
    /\ IF PulseFirst(pulse_rb[th][site])
       THEN /\ Goto(th, [Idle EXCEPT !.at = AfterStorage(th, "Pulse.first"),
                                     !.call = "Pulse", !.id = id, !.site = site])
            /\ tsc' = tsc
       ELSE /\ Goto(th, [Idle EXCEPT !.at = "push.data", !.call = "Pulse",
                                     !.id = pulse_rb[th][site], !.site = site,
                                     !.t = tsc + 1,
                                     !.val = CyclesSub(tsc + 1, pulse_last[th][site]),
                                     !.key = CALIB_KEY_PULSE])
            /\ tsc' = tsc + 1
    /\ UNCHANGED <<ts, has_ts, thread_buffers, pulse_rb, pulse_last, snap, mutex>>
    /\ StepFrame

\* GetThreadStorage: ts = new ThreadStorage(); Manager::Register takes the lock
RegisterLock(th) ==
    /\ pc[th].at = "Register.lock"
    /\ LockGuard(th)
    /\ has_ts' = [has_ts EXCEPT ![th] = TRUE]
    /\ Goto(th, [pc[th] EXCEPT !.at = "Register.push"])
    /\ UNCHANGED <<ts, thread_buffers, pulse_rb, pulse_last, tsc, snap, ops>>
    /\ StepFrame

\* Manager::Register: thread_buffers.push_back(ts), and the lock is released
RegisterPush(th) ==
    /\ pc[th].at = "Register.push"
    /\ thread_buffers' = Register(thread_buffers, th)
    /\ Unlock(th)
    /\ Goto(th, [pc[th] EXCEPT !.at = BodyOf(pc[th].call)])
    /\ UNCHANGED <<ts, has_ts, pulse_rb, pulse_last, tsc, snap, ops>>
    /\ StepFrame

\* Start: the test of stack_ptr and the stores into the scope stack
StartRecord(th) ==
    /\ pc[th].at = "Start.record"
    /\ ts' = [ts EXCEPT ![th] = RecorderStart(@, pc[th].id, pc[th].mode, tsc + 1)]
    /\ tsc' = IF StackHasRoom(ts[th]) THEN tsc + 1 ELSE tsc
    /\ Goto(th, Idle)
    /\ UNCHANGED <<has_ts, thread_buffers, pulse_rb, pulse_last, snap, ops, mutex>>
    /\ StepFrame

\* Stop reading the counter after it has obtained the thread storage
StopPopReadingLate(th) ==
    /\ pc[th].at = "Stop.pop"
    /\ tsc' = tsc + 1
    /\ IF StackNonEmpty(ts[th])
       THEN LET sp == ts[th].stack_ptr - 1
            IN /\ ts' = [ts EXCEPT ![th] =
                            [GetOrAdd(@, @.stack_ids[sp]) EXCEPT !.stack_ptr = sp]]
               /\ Goto(th, [pc[th] EXCEPT !.at = "push.data",
                                          !.id = ts[th].stack_ids[sp],
                                          !.val = StopDelta(ts[th], tsc + 1),
                                          !.key = CalibKey(ts[th].stack_modes[sp],
                                                           pc[th].mode)])
       ELSE /\ ts' = ts
            /\ Goto(th, Idle)
    /\ UNCHANGED <<has_ts, thread_buffers, pulse_rb, pulse_last, snap, ops, mutex>>
    /\ StepFrame

\* Stop: the test of stack_ptr, the pop, and history[id] (std::map operator[],
\* which inserts the buffer of a new id)
StopPop(th) ==
    /\ pc[th].at = "Stop.pop"
    /\ IF StackNonEmpty(ts[th])
       THEN LET sp == ts[th].stack_ptr - 1
            IN /\ ts' = [ts EXCEPT ![th] =
                            [GetOrAdd(@, @.stack_ids[sp]) EXCEPT !.stack_ptr = sp]]
               /\ Goto(th, [pc[th] EXCEPT !.at = "push.data",
                                          !.id = ts[th].stack_ids[sp],
                                          !.val = StopDelta(ts[th], pc[th].t),
                                          !.key = CalibKey(ts[th].stack_modes[sp],
                                                           pc[th].mode)])
       ELSE /\ ts' = ts
            /\ Goto(th, Idle)
    /\ UNCHANGED <<has_ts, thread_buffers, pulse_rb, pulse_last, tsc, snap, ops, mutex>>
    /\ StepFrame

\* LATTE_PULSE, first execution: _l_rb = GetBuffer(id); _l_last = RDTSC()
PulseFirstStep(th) ==
    /\ pc[th].at = "Pulse.first"
    /\ ts' = [ts EXCEPT ![th] = GetOrAdd(@, pc[th].id)]
    /\ tsc' = tsc + 1
    /\ pulse_rb' = [pulse_rb EXCEPT ![th][pc[th].site] = pc[th].id]
    /\ pulse_last' = [pulse_last EXCEPT ![th][pc[th].site] = tsc + 1]
    /\ Goto(th, Idle)
    /\ UNCHANGED <<has_ts, thread_buffers, snap, ops, mutex>>
    /\ StepFrame

\* RingBuffer::push: the update of calib_key and data[head] = val
PushData(th) ==
    /\ pc[th].at = "push.data"
    /\ LET rb == ts[th].history[pc[th].id]
       IN ts' = [ts EXCEPT ![th].history[pc[th].id] =
                     [push(rb, pc[th].val, pc[th].key) EXCEPT !.head = rb.head]]
    /\ Goto(th, [pc[th] EXCEPT !.at = "push.head"])
    /\ UNCHANGED <<has_ts, thread_buffers, pulse_rb, pulse_last, tsc, snap, ops, mutex>>
    /\ StepFrame

\* RingBuffer::push: head = (head + 1) & BUFFER_MASK; then, in LATTE_PULSE,
\* _l_last = _l_now
PushHead(th) ==
    /\ pc[th].at = "push.head"
    /\ ts' = [ts EXCEPT ![th].history[pc[th].id].head = BitAnd(@ + 1, BUFFER_MASK)]
    /\ pulse_last' = IF pc[th].call = "Pulse"
                      THEN [pulse_last EXCEPT ![th][pc[th].site] = pc[th].t]
                      ELSE pulse_last
    /\ Goto(th, Idle)
    /\ UNCHANGED <<has_ts, thread_buffers, pulse_rb, tsc, snap, ops, mutex>>
    /\ StepFrame

\* Snapshot(id): Manager::ExtractRaw(id) begins
StepSnapshot(th, id) ==
    /\ pc[th].at = "idle"
    /\ Goto(th, [Idle EXCEPT !.at = "ExtractRaw.lock", !.call = "Snapshot", !.id = id])
    /\ UNCHANGED <<ts, has_ts, thread_buffers, pulse_rb, pulse_last, tsc, snap, ops,
                   mutex>>
    /\ StepFrame

\* ExtractRaw: std::lock_guard<std::mutex> lock(mutex)
ExtractLock(th) ==
    /\ pc[th].at = "ExtractRaw.lock"
    /\ LockGuard(th)
    /\ Goto(th, [pc[th] EXCEPT !.at = "ExtractRaw.find", !.k = 1])
    /\ UNCHANGED <<ts, has_ts, thread_buffers, pulse_rb, pulse_last, tsc, snap, ops>>
    /\ StepFrame

\* ExtractRaw: the next entry of thread_buffers and ts->history.find(id); at the
\* end of the registry the lock is released and the output returned
ExtractFind(th) ==
    /\ pc[th].at = "ExtractRaw.find"
    /\ IF pc[th].k > Len(thread_buffers)
       THEN /\ Unlock(th)
            /\ snap' = [id |-> pc[th].id, out |-> pc[th].out]
            /\ Goto(th, Idle)
       ELSE /\ mutex' = mutex
            /\ snap' = snap
            /\ IF pc[th].id \in DOMAIN ts[thread_buffers[pc[th].k]].history
               THEN Goto(th, [pc[th] EXCEPT !.at = "ExtractRaw.read", !.i = 0])
               ELSE Goto(th, [pc[th] EXCEPT !.k = @ + 1])
    /\ UNCHANGED <<ts, has_ts, thread_buffers, pulse_rb, pulse_last, tsc, ops>>
    /\ StepFrame

\* ExtractRaw: Cycles v = rb.data[i]; if (v > 0) output.push_back(v)
ExtractRead(th) ==
    /\ pc[th].at = "ExtractRaw.read"
    /\ LET v == ts[thread_buffers[pc[th].k]].history[pc[th].id].data[pc[th].i]
           o == IF v > 0 THEN Append(pc[th].out, v) ELSE pc[th].out
       IN IF pc[th].i + 1 < MAX_SAMPLES
          THEN Goto(th, [pc[th] EXCEPT !.i = @ + 1, !.out = o])
          ELSE Goto(th, [pc[th] EXCEPT !.at = "ExtractRaw.find", !.k = @ + 1,
                                       !.i = 0, !.out = o])
    /\ UNCHANGED <<ts, has_ts, thread_buffers, pulse_rb, pulse_last, tsc, snap, ops,
                   mutex>>
    /\ StepFrame

\* the calls the threads begin
BeginStart == \E th \in Threads :
                ops < MaxStepOps /\ StepStart(th, "A", Fast)

BeginStop == \E th \in Threads :
                ops < MaxStepOps /\ StepStop(th, "A", Fast)

BeginPulse == ops < MaxStepOps /\ StepPulse(1, "s1", "B")

\* (one Snapshot call is made in a behaviour)
BeginSnapshot == \E th \in Threads, id \in UserIds :
                    /\ snap.id = NullId
                    /\ \A o \in Threads : pc[o].call # "Snapshot"
                    /\ StepSnapshot(th, id)

\* the statements of the calls in progress
Statement == \E th \in Threads :
                \/ RegisterLock(th) \/ RegisterPush(th)
                \/ StartRecord(th) \/ StopPop(th) \/ PulseFirstStep(th)
                \/ PushData(th) \/ PushHead(th)
                \/ ExtractLock(th) \/ ExtractFind(th) \/ ExtractRead(th)

NextStep == BeginStart \/ BeginStop \/ BeginPulse \/ BeginSnapshot \/ Statement

SpecStep == Init /\ [][NextStep]_vars

(***************************************************************************)
(* EnsureCalibrated (std::call_once), Manager::Calibrate, DumpToStream,    *)
(* Snapshot and the first Start of a thread executed statement by          *)
(* statement.  The measurement loops of Calibrate, which work on the       *)
(* calling thread's own storage, are one step, as is the scan of           *)
(* DumpToStream made under the lock.  The counter ticks at every read.     *)
(***************************************************************************)
\* the statements of Manager::Calibrate
CalibrateAt ==
    {"Calibrate.time", "Calibrate.loops", "Calibrate.extract", "Calibrate.offset",
     "Calibrate.valid", "Calibrate.erase"}

\* thread o is running the callable of std::call_once (Calibrate, with the
\* registration GetThreadStorage may make in it)
Calibrating(o) ==
    /\ pc[o].call \in {"EnsureCalibrated", "Dump"}
    /\ pc[o].at \in CalibrateAt \cup {"Register.lock", "Register.push"}

\* the variables no statement of EnsureCalibrated or DumpToStream writes
LatchFrame ==
    UNCHANGED <<mono, calls, nested, dropped, pushed, pairs, run, last,
                started, pulsed, applied, snap, ops>>

\* Manager::EnsureCalibrated() called
StepEnsure(th) ==
    /\ pc[th].at = "idle"
    /\ cals' = cals + 1
    /\ Goto(th, [Idle EXCEPT !.at = "once.enter", !.call = "EnsureCalibrated"])
    /\ UNCHANGED <<ts, has_ts, thread_buffers, pulse_rb, pulse_last, tsc, mutex,
                   calibrate_once, cycles_per_ns, calib_offsets, calib_valid, report>>
    /\ LatchFrame

\* DumpToStream(oss, unit, data_mode) called: EnsureCalibrated first, in Time or
\* Calibrated mode
StepDump(th, unit, data_mode) ==
    /\ pc[th].at = "idle"
    /\ cals' = cals + 1
    /\ Goto(th, [Idle EXCEPT !.at = IF unit = "Time" \/ data_mode = "Calibrated"
                                    THEN "once.enter" ELSE "Dump.lock",
                             !.call = "Dump", !.unit = unit,
                             !.data_mode = data_mode])
    /\ UNCHANGED <<ts, has_ts, thread_buffers, pulse_rb, pulse_last, tsc, mutex,
                   calibrate_once, cycles_per_ns, calib_offsets, calib_valid, report>>
    /\ LatchFrame

\* std::call_once not waiting for a running callable
OnceEnterNoWait(th) ==
    /\ pc[th].at = "once.enter"
    /\ IF calibrate_once \/ \E o \in Threads \ {th} : Calibrating(o)
       THEN Goto(th, [pc[th] EXCEPT !.at = "once.return"])
       ELSE Goto(th, [pc[th] EXCEPT !.at = "Calibrate.time"])
    /\ UNCHANGED <<ts, has_ts, thread_buffers, pulse_rb, pulse_last, tsc, mutex,
                   calibrate_once, cycles_per_ns, calib_offsets, calib_valid, report,
                   cals>>
    /\ LatchFrame

\* std::call_once(calibrate_once, ...): returns if the callable has completed,
\* waits if another thread is running it, else runs it
OnceEnter(th) ==
    /\ pc[th].at = "once.enter"
    /\ IF calibrate_once
       THEN Goto(th, [pc[th] EXCEPT !.at = "once.return"])
       ELSE IF \E o \in Threads \ {th} : Calibrating(o)
       THEN Goto(th, [pc[th] EXCEPT !.at = "once.wait", !.waited = TRUE])
       ELSE Goto(th, [pc[th] EXCEPT !.at = "Calibrate.time"])
    /\ UNCHANGED <<ts, has_ts, thread_buffers, pulse_rb, pulse_last, tsc, mutex,
                   calibrate_once, cycles_per_ns, calib_offsets, calib_valid, report,
                   cals>>
    /\ LatchFrame

\* std::call_once: the waiting thread is released when the callable has completed
OnceWait(th) ==
    /\ pc[th].at = "once.wait"
    /\ calibrate_once
    /\ Goto(th, [pc[th] EXCEPT !.at = "once.return"])
    /\ UNCHANGED <<ts, has_ts, thread_buffers, pulse_rb, pulse_last, tsc, mutex,
                   calibrate_once, cycles_per_ns, calib_offsets, calib_valid, report,
                   cals>>
    /\ LatchFrame

\* EnsureCalibrated returns, to its caller or into DumpToStream
OnceReturn(th) ==
    /\ pc[th].at = "once.return"
    /\ IF pc[th].call = "Dump"
       THEN Goto(th, [pc[th] EXCEPT !.at = "Dump.lock"])
       ELSE Goto(th, Idle)
    /\ UNCHANGED <<ts, has_ts, thread_buffers, pulse_rb, pulse_last, tsc, mutex,
                   calibrate_once, cycles_per_ns, calib_offsets, calib_valid, report,
                   cals>>
    /\ LatchFrame

\* Calibrate: TIME CALIBRATION, then (void)GetThreadStorage()
CalTime(th) ==
    /\ pc[th].at = "Calibrate.time"
    /\ \E ns \in WallNs : cycles_per_ns' = CyclesPerNs(tsc + 1, tsc + 2, ns)
    /\ tsc' = tsc + 2
    /\ Goto(th, [pc[th] EXCEPT !.at = AfterStorage(th, "Calibrate.loops")])
    /\ UNCHANGED <<ts, has_ts, thread_buffers, pulse_rb, pulse_last, mutex,
                   calibrate_once, calib_offsets, calib_valid, report, cals>>
    /\ LatchFrame

\* the thread's way through the two loops, which do not block
CalLoopsReturn(th) ==
    /\ pc[th].at = "Calibrate.loops"
    /\ Goto(th, [pc[th] EXCEPT !.at = "Calibrate.extract", !.k = 1])

\* Calibrate: PERMUTATION OVERHEAD and PULSE OVERHEAD
CalLoops(th) ==
    /\ CalLoopsReturn(th)
    /\ \E land \in Landings(ts[th].history, pulse_rb[th][CalibSite]) :
       \E P \in {CalibLoops(View(th), pulse_rb[th][CalibSite],
                            pulse_last[th][CalibSite], 1, land)} :
          /\ ts' = [ts EXCEPT ![th] = P.view.ts]
          /\ tsc' = P.view.tsc
          /\ pulse_rb' = [pulse_rb EXCEPT ![th][CalibSite] = P.rb]
          /\ pulse_last' = [pulse_last EXCEPT ![th][CalibSite] = P.lst]
    /\ UNCHANGED <<has_ts, thread_buffers, mutex, calibrate_once, cycles_per_ns,
                   calib_offsets, calib_valid, report, cals>>
    /\ LatchFrame

\* the k-th BUMED assignment of Calibrate: its key and the id it extracts
CalibKeyAt(k) == IF k <= Len(CalibPerms) THEN CalibKeyOf(k) ELSE CALIB_KEY_PULSE

CalibIdAt(k) == IF k <= Len(CalibPerms) THEN CalibPerms[k][3] ELSE CALIB_PULSE

\* BUMED: ExtractRaw(id) takes the lock
CalExtract(th) ==
    /\ pc[th].at = "Calibrate.extract"
    /\ LockGuard(th)
    /\ Goto(th, [pc[th] EXCEPT !.at = "Calibrate.offset"])
    /\ UNCHANGED <<ts, has_ts, thread_buffers, pulse_rb, pulse_last, tsc,
                   calibrate_once, cycles_per_ns, calib_offsets, calib_valid, report,
                   cals>>
    /\ LatchFrame

\* the thread's way through ExtractRaw and BUMED, which do not block once the
\* lock is held
CalOffsetReturn(th) ==
    /\ pc[th].at = "Calibrate.offset"
    /\ IF pc[th].k < CALIB_KEY_COUNT
       THEN Goto(th, [pc[th] EXCEPT !.at = "Calibrate.extract", !.k = @ + 1])
       ELSE Goto(th, [pc[th] EXCEPT !.at = "Calibrate.valid", !.i = 0])

\* BUMED: ExtractRaw(id) scans and releases the lock; calib_offsets[key] = BUMED(id)
CalOffset(th) ==
    /\ CalOffsetReturn(th)
    /\ Unlock(th)
    /\ \E raw \in {ExtractRaw(thread_buffers, ts, CalibIdAt(pc[th].k))} :
          calib_offsets' = [calib_offsets EXCEPT ![CalibKeyAt(pc[th].k)] = BUMED(raw)]
    /\ UNCHANGED <<ts, has_ts, thread_buffers, pulse_rb, pulse_last, tsc,
                   calibrate_once, cycles_per_ns, calib_valid, report, cals>>
    /\ LatchFrame

\* Calibrate: calib_valid[i] = true
CalValid(th) ==
    /\ pc[th].at = "Calibrate.valid"
    /\ calib_valid' = [calib_valid EXCEPT ![pc[th].i] = TRUE]
    /\ IF pc[th].i + 1 < CALIB_KEY_COUNT
       THEN Goto(th, [pc[th] EXCEPT !.i = @ + 1])
       ELSE Goto(th, [pc[th] EXCEPT !.at = "Calibrate.erase"])
    /\ UNCHANGED <<ts, has_ts, thread_buffers, pulse_rb, pulse_last, tsc, mutex,
                   calibrate_once, cycles_per_ns, calib_offsets, report, cals>>
    /\ LatchFrame

\* Calibrate: the calibration ids are erased; the callable returns and
\* std::call_once sets the flag
CalErase(th) ==
    /\ pc[th].at = "Calibrate.erase"
    /\ ts' = [ts EXCEPT ![th].history = EraseCalib(@)]
    /\ calibrate_once' = TRUE
    /\ Goto(th, [pc[th] EXCEPT !.at = "once.return"])
    /\ UNCHANGED <<has_ts, thread_buffers, pulse_rb, pulse_last, tsc, mutex,
                   cycles_per_ns, calib_offsets, calib_valid, report, cals>>
    /\ LatchFrame

\* DumpToStream: std::lock_guard<std::mutex> lock(mgr.mutex)
DumpLock(th) ==
    /\ pc[th].at = "Dump.lock"
    /\ LockGuard(th)
    /\ Goto(th, [pc[th] EXCEPT !.at = "Dump.collect"])
    /\ UNCHANGED <<ts, has_ts, thread_buffers, pulse_rb, pulse_last, tsc,
                   calibrate_once, cycles_per_ns, calib_offsets, calib_valid, report,
                   cals>>
    /\ LatchFrame

\* the thread's way through the rest of DumpToStream, which does not block
DumpReturn(th) ==
    /\ pc[th].at = "Dump.collect"
    /\ Goto(th, Idle)

\* DumpToStream: the collection, the release of the lock, and the rows
DumpCollect(th) ==
    /\ DumpReturn(th)
    /\ Unlock(th)
    /\ report' = Report(pc[th].data_mode)
    /\ UNCHANGED <<ts, has_ts, thread_buffers, pulse_rb, pulse_last, tsc,
                   calibrate_once, cycles_per_ns, calib_offsets, calib_valid, cals>>
    /\ LatchFrame

\* the calls the threads begin: the first Start of a thread and the Stop of its
\* scope, EnsureCalibrated, DumpToStream and (once in a behaviour) Snapshot
LatchBudget == ops + cals < MaxLatchCalls

LatchStart == \E th \in Threads :
                LatchBudget /\ ~has_ts[th] /\ StepStart(th, "B", Fast)

LatchStop == \E th \in Threads :
                LatchBudget /\ ts[th].stack_ptr > 0 /\ StepStop(th, "B", Fast)

LatchEnsure == \E th \in Threads : LatchBudget /\ StepEnsure(th)

LatchDump == \E th \in Threads :
                \/ LatchBudget /\ StepDump(th, "Cycle", "Raw")
                \/ LatchBudget /\ StepDump(th, "Time", "Calibrated")

LatchSnapshot == \E th \in Threads :
                    /\ snap.id = NullId
                    /\ \A o \in Threads : pc[o].call # "Snapshot"
                    /\ StepSnapshot(th, "B")

\* the statements of the call thread th is in
LatchStatement(th) ==
    \/ RegisterLock(th) \/ RegisterPush(th)
    \/ StartRecord(th) \/ StopPop(th) \/ PushData(th) \/ PushHead(th)
    \/ ExtractLock(th) \/ ExtractFind(th) \/ ExtractRead(th)
    \/ OnceEnter(th) \/ OnceWait(th) \/ OnceReturn(th)
    \/ CalTime(th) \/ CalLoops(th) \/ CalExtract(th) \/ CalOffset(th)
    \/ CalValid(th) \/ CalErase(th)
    \/ DumpLock(th) \/ DumpCollect(th)

NextLatch ==
    \/ LatchStart \/ LatchStop \/ LatchEnsure \/ LatchDump \/ LatchSnapshot
    \/ \E th \in Threads : LatchStatement(th)

SpecLatch == Init /\ [][NextLatch]_vars

\* the statements of thread th as the scheduler sees them: the thread is at
\* one statement at a time, and its statement is enabled unless it is a lock
\* request while the mutex is held or the wait of std::call_once.  (CalLoops(th),
\* CalOffset(th) and DumpCollect(th) are enabled whenever the thread is at
\* them and are the only steps of NextLatch that move it on: they are
\* scheduled as CalLoopsReturn(th), CalOffsetReturn(th) and DumpReturn(th).)
Scheduled(th) ==
    \/ RegisterLock(th) \/ RegisterPush(th)
    \/ StartRecord(th) \/ StopPop(th) \/ PushData(th) \/ PushHead(th)
    \/ ExtractLock(th) \/ ExtractFind(th) \/ ExtractRead(th)
    \/ OnceEnter(th) \/ OnceWait(th) \/ OnceReturn(th)
    \/ CalTime(th) \/ CalLoopsReturn(th) \/ CalExtract(th) \/ CalOffsetReturn(th)
    \/ CalValid(th) \/ CalErase(th)
    \/ DumpLock(th) \/ DumpReturn(th)

\* every thread that is inside a call and can take a step eventually takes one
\* (every statement moves the thread: pc changes)
SpecLatchFair == SpecLatch /\ \A th \in Threads : WF_pc(Scheduled(th))

(***************************************************************************)
(* The cleaner applied to sample sequences: every sequence of at most      *)
(* MaxCleanLen samples, and sequences of four to MaxCleanBuckets full      *)
(* buckets followed by a short tail.                                       *)
(***************************************************************************)
\* samples: whole doubles, 0 (a clamped sample) and a negative one included
CleanValues == {-1, 0, 1, 2, 9}

SeqsUpTo(S, n) == UNION {[1 .. k -> S] : k \in 0 .. n}

\* a full bucket: its first sample a, the others b
BucketOf(a, b) == [k \in 1 .. BUCKET_SIZE |-> IF k = 1 THEN a ELSE b]

BucketShapes == {BucketOf(1, 1), BucketOf(2, 1), BucketOf(9, 1), BucketOf(9, 2)}

RECURSIVE Concat(_)
Concat(qs) == IF qs = << >> THEN << >> ELSE qs[1] \o Concat(Tail(qs))

LongInputs ==
    {Concat(bs) \o tail :
        bs \in UNION {[1 .. n -> BucketShapes] : n \in 4 .. MaxCleanBuckets},
        tail \in SeqsUpTo({2, 9}, 2)}

\* a full bucket of samples of 10 with an outlier of 900 at its end, then a
\* full bucket of samples of 10
UpperFenceInput == [k \in 1 .. 2 * BUCKET_SIZE |-> IF k = BUCKET_SIZE THEN 900 ELSE 10]

CleanInputs == SeqsUpTo(CleanValues, MaxCleanLen) \cup LongInputs \cup {UpperFenceInput}

\* DataClean(values) called once
CleanCall ==
    /\ applied.fn = "none"
    /\ \E values \in CleanInputs :
        /\ applied' = [fn |-> "DataClean", arg |-> values, out |-> DataClean(values)]
        /\ UNCHANGED <<ts, has_ts, thread_buffers, pulse_rb, pulse_last, tsc,
                       calibrate_once, cycles_per_ns, calib_offsets, calib_valid,
                       mono, calls, nested, dropped, pushed, pairs, run, last, ops,
                       cals, snap, report, started, pulsed, mutex, pc>>

NextClean == CleanCall

SpecClean == Init /\ [][NextClean]_vars

(***************************************************************************)
(* BUMED applied to sequences of extracted samples                         *)
(***************************************************************************)
\* what ExtractRaw returns: non-zero samples; small ones and one near the top of
\* the range of Cycles (below max(), the value BUMED starts a minimum from)
BumedValues == {1, 2, 5, CyclesMax - 1}

BumedInputs == SeqsUpTo(BumedValues, MaxBumedLen)

\* BUMED(id) evaluated once, raw being what ExtractRaw(id) returned
BumedCall ==
    /\ applied.fn = "none"
    /\ \E raw \in BumedInputs :
        /\ applied' = [fn |-> "BUMED", arg |-> raw, out |-> BUMED(raw)]
        /\ UNCHANGED <<ts, has_ts, thread_buffers, pulse_rb, pulse_last, tsc,
                       calibrate_once, cycles_per_ns, calib_offsets, calib_valid,
                       mono, calls, nested, dropped, pushed, pairs, run, last, ops,
                       cals, snap, report, started, pulsed, mutex, pc>>

NextBumed == BumedCall

SpecBumed == Init /\ [][NextBumed]_vars

(***************************************************************************)
(* Properties                                                              *)
(***************************************************************************)
\* the step is a Start / Stop call of thread th
StartStep(th) == ops' = ops + 1 /\ last'.op = "Start" /\ last'.th = th

StopStep(th) == ops' = ops + 1 /\ last'.op = "Stop" /\ last'.th = th

TopCall(th) == calls[th][Len(calls[th])]

BufferOf(s, id) == MapIndex(s.history, id)[id]

\* the buffers of storage s other than the one of id are those of storage r
OthersSame(s, r, id) ==
    /\ DOMAIN r.history = (DOMAIN s.history) \cup {id}
    /\ \A i \in (DOMAIN s.history) \ {id} : r.history[i] = s.history[i]

\* buffer b is buffer a with one more slot written, v at a's head, the head
\* advanced by one around the ring
OneAppended(a, b, v) ==
    /\ b.data = [a.data EXCEPT ![a.head] = v]
    /\ b.head = (a.head + 1) % MAX_SAMPLES

\* C1: on a thread whose Stop calls all named the innermost open Start and none
\* of whose Start calls found the scope stack full, with a counter that has
\* strictly increased from read to read, a Stop appends exactly one sample,
\* non-zero and equal to its own timestamp minus the timestamp of the Start it
\* closes, to the buffer of that Start's id in that thread's storage, and
\* changes no other ring buffer of any thread.
C1_PairAppendsOneSample ==
    [][\A th \in Threads :
        (StopStep(th) /\ calls[th] # << >> /\ nested'[th] /\ ~dropped[th] /\ mono')
        => LET c == TopCall(th)
               v == tsc' - c.start
           IN /\ v > 0
              /\ c.id \in DOMAIN ts'[th].history
              /\ OneAppended(BufferOf(ts[th], c.id), ts'[th].history[c.id], v)
              /\ OthersSame(ts[th], ts'[th], c.id)
              /\ \A o \in Threads \ {th} : ts'[o] = ts[o]]_vars

\* a scope of "A" nested in a scope of "B" has just been closed
C1_Witness ==
    \E th \in Threads :
        /\ last.op = "Stop" /\ last.th = th /\ last.id = "A" /\ last.depth = 2
        /\ nested[th] /\ ~dropped[th] /\ mono
        /\ calls[th] # << >> /\ calls[th][1].id = "B"
        /\ pushed[th]["A"].n = 1

\* C2: a Stop on a non-empty scope stack pops the top scope (id', t0, mode) and
\* pushes end - t0, with the key of (mode, stop mode), into the buffer of id',
\* whatever id x it is called with; the depth decreases by exactly one.
C2_StopPopsTopWhateverId ==
    [][\A th \in Threads :
        (StopStep(th) /\ ts[th].stack_ptr > 0)
        => LET sp  == ts[th].stack_ptr - 1
               id1 == ts[th].stack_ids[sp]
               v   == CyclesSub(tsc', ts[th].stack_starts[sp])
               a   == BufferOf(ts[th], id1)
           IN /\ ts'[th].stack_ptr = sp
              /\ OneAppended(a, ts'[th].history[id1], v)
              /\ ts'[th].history[id1].calib_key \in
                    {CalibKey(ts[th].stack_modes[sp], last'.mode), CALIB_KEY_MIXED}
              /\ OthersSame(ts[th], ts'[th], id1)
              /\ ts'[th].stack_ids = ts[th].stack_ids]_vars

\* Stop("A") was called with "B" on top of "A", and Stop(nullptr) with "B" on top
C2_Witness ==
    \E th \in Threads :
        /\ last.op = "Stop" /\ last.th = th /\ last.depth = 2
        /\ last.id = "A"
        /\ ts[th].stack_ids[1] = "B" /\ ts[th].stack_ids[0] = "A"
        /\ ts[th].stack_ptr = 1
        /\ "B" \in DOMAIN ts[th].history /\ ts[th].history["B"].head = 1
        /\ "A" \notin DOMAIN ts[th].history

\* C3: a Stop on an empty scope stack leaves the depth 0 and changes no ring
\* buffer and no buffer map of any thread.
C3_StopOnEmptyIsNoOp ==
    [][\A th \in Threads :
        (StopStep(th) /\ ts[th].stack_ptr = 0)
        => /\ ts'[th].stack_ptr = 0
           /\ \A o \in Threads : ts'[o].history = ts[o].history]_vars

\* Stop was called on an empty stack while the other thread holds a sample
C3_Witness ==
    \E th \in Threads :
        /\ last.op = "Stop" /\ last.th = th /\ last.depth = 0
        /\ \E o \in Threads \ {th} : \E i \in DOMAIN ts[o].history :
                ts[o].history[i].head > 0
        /\ ts[th].stack_ptr = 0

\* C4: a Start on a full scope stack changes nothing: the depth, the three
\* stack arrays, every ring buffer and the buffer map of every thread.
C4_StartOnFullChangesNothing ==
    [][\A th \in Threads :
        (StartStep(th) /\ ts[th].stack_ptr = MAX_ACTIVE_SLOTS) => ts' = ts]_vars

\* Start was called on a full stack
C4_Witness ==
    \E th \in Threads :
        /\ last.op = "Start" /\ last.th = th /\ last.depth = MAX_ACTIVE_SLOTS
        /\ ts[th].stack_ptr = MAX_ACTIVE_SLOTS
        /\ dropped[th]

\* C5 (as claimed): in a strictly nested call sequence, with a counter that
\* strictly increases, the Stop that closes a Start which found the scope stack
\* full adds no sample to any ring buffer, and the Stop that closes a Start
\* which was pushed records that scope: one sample, measured from that Start's
\* timestamp, in the buffer of that Start's id.
C5_DroppedScopeIsInvisible ==
    [][\A th \in Threads :
        (StopStep(th) /\ calls[th] # << >> /\ nested'[th] /\ mono')
        => LET c == TopCall(th)
           IN IF c.dropped
              THEN \A o \in Threads : ts'[o].history = ts[o].history
              ELSE /\ c.id \in DOMAIN ts'[th].history
                   /\ OneAppended(BufferOf(ts[th], c.id), ts'[th].history[c.id],
                                  tsc' - c.start)]_vars

\* C6: from a full scope stack, after K >= 1 Start calls (all dropped) followed
\* by M <= D_max Stop calls, the depth is D_max - M.
C6_DepthAfterOverflow ==
    \A th \in Threads :
        (run[th].k >= 1 /\ run[th].m <= MAX_ACTIVE_SLOTS)
        => ts[th].stack_ptr = MAX_ACTIVE_SLOTS - run[th].m

\* a Start was dropped on the full stack and D_max Stop calls have emptied it since
C6_Witness ==
    \E th \in Threads :
        /\ run[th].k >= 1 /\ run[th].m = MAX_ACTIVE_SLOTS
        /\ last.op = "Stop" /\ last.th = th /\ last.depth = 1

\* C7: the scope-stack top index of every thread is in 0 .. D_max, whatever
\* Start, Stop, Pulse and calibration calls were made.
C7_StackPtrInRange ==
    \A th \in Threads : ts[th].stack_ptr \in 0 .. MAX_ACTIVE_SLOTS

\* calibration has run on a thread whose scope stack was full, while the other
\* thread has an open scope
C7_Witness ==
    \E th \in Threads :
        /\ last.op = "Calibrate" /\ last.th = th /\ last.depth = MAX_ACTIVE_SLOTS
        /\ calibrate_once
        /\ \E o \in Threads \ {th} : ts[o].stack_ptr > 0

\* the number of non-zero slots of a ring buffer
NonZeroSlots(rb) == Cardinality({i \in Slots : rb.data[i] # 0})

Min(a, b) == IF a < b THEN a ELSE b

\* no LATTE_PULSE site of thread th has been executed
NoPulseYet(th) == \A site \in AllSites : pulse_rb[th][site] = NullRb

\* C8: after N Start/Stop pairs of one id on one thread and nothing else, none
\* dropped by the depth limit, with a strictly increasing counter, the ring
\* buffer of that id has exactly min(N, capacity) non-zero slots.
C8_NonZeroSlotsAfterPairs ==
    \A th \in Threads :
        (mono /\ ~dropped[th] /\ nested[th] /\ NoPulseYet(th) /\ pairs[th] > 0)
        => /\ "A" \in DOMAIN ts[th].history
           /\ NonZeroSlots(ts[th].history["A"]) = Min(pairs[th], MAX_SAMPLES)

\* more pairs than the ring has slots have been recorded, by pairs alone
C8_Witness ==
    /\ mono /\ ~dropped[1] /\ nested[1] /\ NoPulseYet(1)
    /\ pairs[1] = MAX_SAMPLES + 1
    /\ last.op = "Stop"
    /\ NonZeroSlots(ts[1].history["A"]) = MAX_SAMPLES

\* C9: the head of every ring buffer is in [0, capacity) and equals the number
\* of samples recorded into it modulo the capacity; once at least capacity
\* samples were recorded with a strictly increasing counter every slot is
\* non-zero; at the capacity of the program, 2^16, 100000 samples leave the head
\* at 34464.
C9_HeadIsCountModCapacity ==
    /\ \A th \in Threads : \A id \in DOMAIN ts[th].history :
          LET rb == ts[th].history[id]
              K  == LogOf(pushed[th], id).n
          IN /\ rb.head \in Slots
             /\ rb.head = K % MAX_SAMPLES
             /\ rb.head = BitAnd(K, BUFFER_MASK)
             /\ (mono /\ K >= MAX_SAMPLES) => NonZeroSlots(rb) = MAX_SAMPLES
    /\ BitAnd(100000, 2 ^ 16 - 1) = 34464
    /\ 100000 % (2 ^ 16) = 34464

\* the ring has wrapped: one sample more than its capacity, the head back at 1
C9_Witness ==
    /\ "A" \in DOMAIN ts[1].history
    /\ pushed[1]["A"].n = MAX_SAMPLES + 1
    /\ ts[1].history["A"].head = 1
    /\ mono
    /\ NonZeroSlots(ts[1].history["A"]) = MAX_SAMPLES

\* C10: after K pushes a ring buffer holds exactly the last min(K, capacity)
\* pushed values, the j-th most recent at slot (head - j) mod capacity, and
\* nothing in its other slots.
C10_BufferHoldsLastPushes ==
    \A th \in Threads : \A id \in DOMAIN ts[th].history :
        LET rb == ts[th].history[id]
            l  == LogOf(pushed[th], id)
            n  == Len(l.recent)
        IN /\ n = Min(l.n, MAX_SAMPLES)
           /\ \A j \in 1 .. n :
                 rb.data[(rb.head - j) % MAX_SAMPLES] = l.recent[n - j + 1]
           /\ \A j \in (n + 1) .. MAX_SAMPLES :
                 rb.data[(rb.head - j) % MAX_SAMPLES] = 0

\* the ring has wrapped and overwritten its oldest sample with a different value
C10_Witness ==
    /\ "A" \in DOMAIN ts[1].history
    /\ pushed[1]["A"].n = MAX_SAMPLES + 2
    /\ ts[1].history["A"].data[0] # ts[1].history["A"].data[1]
    /\ ts[1].history["A"].data[1] # ts[1].history["A"].data[2]
    /\ ts[1].history["A"].data[1] = pushed[1]["A"].recent[MAX_SAMPLES]

\* the key of the sample the step pushes: that of (start mode, stop mode) for a
\* Stop, the Pulse key for a LATTE_PULSE
PushedKey(th) ==
    IF last'.op = "Stop"
    THEN CalibKey(ts[th].stack_modes[ts[th].stack_ptr - 1], last'.mode)
    ELSE CALIB_KEY_PULSE

\* the step pushes one sample into the buffer of id of thread th
PushStep(th, id) == LogOf(pushed'[th], id).n = LogOf(pushed[th], id).n + 1

\* C11: the tag of a ring buffer follows UNSET -> key -> MIXED: a push with key
\* sets an UNSET tag to key, leaves a tag equal to key, and turns any other tag
\* into MIXED; a step that pushes nothing leaves the tag; the tag never returns
\* to UNSET and MIXED is absorbing; key(Fast, Hard) = 2.
C11_TagStateMachine ==
    [][/\ \A th \in Threads : \A id \in DOMAIN ts'[th].history :
            LET old == BufferOf(ts[th], id).calib_key
                new == ts'[th].history[id].calib_key
            IN /\ IF PushStep(th, id)
                  THEN new = IF old = CALIB_KEY_UNSET THEN PushedKey(th)
                             ELSE IF old = PushedKey(th) THEN old
                             ELSE CALIB_KEY_MIXED
                  ELSE new = old
               /\ (old # CALIB_KEY_UNSET) => (new # CALIB_KEY_UNSET)
               /\ (old = CALIB_KEY_MIXED) => (new = CALIB_KEY_MIXED)
       /\ CalibKey(Fast, Hard) = 2]_vars

\* pairs in different mode pairs have made the tag of "A" MIXED; the ring has
\* wrapped, the last pair was Start Mid / Stop Hard, and the tag is still MIXED
C11_Witness ==
    /\ "A" \in DOMAIN ts[1].history
    /\ ts[1].history["A"].calib_key = CALIB_KEY_MIXED
    /\ pushed[1]["A"].n = MAX_SAMPLES + 1
    /\ NoPulseYet(1)
    /\ last.op = "Stop" /\ last.mode = Hard
    /\ ts[1].stack_modes[0] = Mid

\* the step is a LATTE_PULSE of thread th in user code
PulseStep(th) == ops' = ops + 1 /\ last'.op = "Pulse" /\ last'.th = th

\* C12: on a thread pulsing one id at one call site, the first Pulse records no
\* sample: it only creates the buffer of the id if there is none and stores the
\* baseline timestamp; every later Pulse pushes exactly one sample, now - last,
\* with the Pulse key, and stores now; so N >= 1 Pulse calls have pushed N - 1
\* samples.
C12_FirstPulseBaselineThenDeltas ==
    [][\A th \in Threads :
        PulseStep(th)
        => LET id == last'.id
               p  == pulsed[th][id]
               a  == BufferOf(ts[th], id)
           IN /\ IF p.n = 0
                 THEN /\ ts'[th].history[id] = a
                      /\ PulseFirst(pulse_rb[th]["s1"])
                 ELSE /\ OneAppended(a, ts'[th].history[id], CyclesSub(tsc', p.t))
                      /\ ts'[th].history[id].calib_key =
                            IF a.calib_key \in {CALIB_KEY_UNSET, CALIB_KEY_PULSE}
                            THEN CALIB_KEY_PULSE ELSE CALIB_KEY_MIXED
              /\ OthersSame(ts[th], ts'[th], id)
              /\ pulse_rb'[th]["s1"] = id
              /\ pulse_last'[th]["s1"] = tsc'
              /\ LogOf(pushed'[th], id).n - pairs'[th] = pulsed'[th][id].n - 1]_vars

\* capacity + 2 Pulse calls and no Start/Stop pair: capacity + 1 samples
C12_Witness ==
    /\ pulsed[1]["A"].n = MAX_SAMPLES + 2
    /\ pairs[1] = 0 /\ calls[1] = << >>
    /\ pushed[1]["A"].n = MAX_SAMPLES + 1
    /\ ts[1].history["A"].calib_key = CALIB_KEY_PULSE
    /\ last.op = "Pulse"

\* C13 (as claimed): Pulse state is per (thread, id): every Pulse(id) after the
\* first on a thread pushes, into that thread's buffer of id, the counter's
\* advance since the previous Pulse(id) of the thread, and the buffer of id has
\* been looked up exactly once by the thread, whatever call sites issue
\* Pulse(id) and whatever ids a call site is invoked with.
C13_PulseStatePerThreadAndId ==
    [][\A th \in Threads :
        PulseStep(th)
        => LET id == last'.id
               p  == pulsed[th][id]
           IN /\ (p.n > 0)
                 => /\ id \in DOMAIN ts'[th].history
                    /\ OneAppended(BufferOf(ts[th], id), ts'[th].history[id],
                                   CyclesSub(tsc', p.t))
              /\ pulsed'[th][id].lookups = 1]_vars

\* the open Start(id) calls of thread th
OpenCalls(th, id) == {k \in 1 .. Len(calls[th]) : calls[th][k].id = id}

\* the samples recorded so far in the buffer of id of thread th
Samples(th, id) == IF id \in DOMAIN ts[th].history THEN pushed[th][id].n ELSE 0

\* C14: on a thread whose calls are properly nested, none dropped by the depth
\* limit, and which has executed no LATTE_PULSE, the number of samples recorded
\* under each id is the number of Start calls made with that id and closed since;
\* when every scope is closed it is the number of Start calls made with the id.
C14_SamplesEqualStarts ==
    \A th \in Threads :
        (nested[th] /\ ~dropped[th] /\ NoPulseYet(th))
        => \A id \in UserIds :
              /\ Samples(th, id) = started[th][id] - Cardinality(OpenCalls(th, id))
              /\ Samples(th, id) < MAX_SAMPLES
                 => BufferOf(ts[th], id).head = Samples(th, id)

\* Start A, Start B, Stop B, Stop A and one more pair of A: 2 samples under A,
\* 1 under B
C14_Witness ==
    /\ nested[1] /\ ~dropped[1] /\ calls[1] = << >>
    /\ started[1]["A"] = 2 /\ started[1]["B"] = 1
    /\ ts[1].history["A"].head = 2 /\ ts[1].history["B"].head = 1
    /\ ts[1].stack_ids[0] = "A" /\ ts[1].stack_ids[1] = "B"

\* the step is a Start, Stop or LATTE_PULSE of thread th in user code
CallStep(th) == ops' = ops + 1 /\ last'.th = th

\* what a call changes in the storage s of its thread, given the call and the
\* timestamp t it read
CallEffect(s, th, t) ==
    IF last'.op = "Start" THEN {RecorderStart(s, last'.id, last'.mode, t)}
    ELSE IF last'.op = "Stop" THEN {RecorderStop(s, last'.id, last'.mode, t)}
    ELSE {ViewPulse([ts |-> s, tsc |-> t, mono |-> TRUE, pushed |-> << >>,
                     dropped |-> FALSE],
                    pulse_rb[th][site], pulse_last[th][site], last'.id, 0).view.ts :
            site \in UserSites}

\* C15: a Start, Stop or LATTE_PULSE of a thread changes the scope stack and the
\* ring buffers of that thread only, and what it changes them to is determined
\* by that thread's storage, the call and the timestamp the call read; so the
\* content of a thread's storage does not depend on how the calls of other
\* threads are interleaved with its own.
C15_ThreadStorageIsPrivate ==
    [][\A th \in Threads :
        CallStep(th)
        => /\ \A o \in Threads \ {th} :
                 /\ ts'[o] = ts[o]
                 /\ pulse_rb'[o] = pulse_rb[o]
                 /\ pulse_last'[o] = pulse_last[o]
           /\ ts'[th] \in CallEffect(ts[th], th, tsc')]_vars

\* both threads record "B": thread 1 has closed its scope while the scope of
\* thread 2, opened in between, is still open
C15_Witness ==
    /\ last.op = "Stop" /\ last.th = 1
    /\ "B" \in DOMAIN ts[1].history /\ ts[1].history["B"].head = 1
    /\ ts[1].stack_ptr = 0
    /\ ts[2].stack_ptr = 1 /\ ts[2].stack_ids[0] = "B"
    /\ ts[2].stack_starts[0] > ts[1].stack_starts[0]
    /\ "B" \notin DOMAIN ts[2].history

\* the threads whose storage is in the registry q
Registered(q) == {q[k] : k \in 1 .. Len(q)}

\* the step is a call of thread th that reaches GetThreadStorage: a Start, Stop or
\* LATTE_PULSE, or the EnsureCalibrated that runs the calibrator
StorageStep(th) ==
    \/ CallStep(th)
    \/ cals' = cals + 1 /\ ~calibrate_once /\ last'.th = th

CountIn(q, v) == Cardinality({k \in 1 .. Len(q) : q[k] = v})

\* how many slots of the buffer of id in the storage of thread th hold v, if the
\* thread is registered and has such a buffer
SlotsHolding(th, id, v) ==
    IF th \in Registered(thread_buffers') /\ id \in DOMAIN ts'[th].history
    THEN Cardinality({i \in Slots : ts'[th].history[id].data[i] = v})
    ELSE 0

RECURSIVE SumSlotsHolding(_, _, _)
SumSlotsHolding(T, id, v) ==
    IF T = {} THEN 0
    ELSE LET th == CHOOSE t \in T : TRUE
         IN SlotsHolding(th, id, v) + SumSlotsHolding(T \ {th}, id, v)

\* the values in the result q of a snapshot or in a slot of a buffer of id
SnapValues(q, id) ==
    {q[k] : k \in 1 .. Len(q)} \cup
    UNION {{ts'[th].history[id].data[i] : i \in Slots} :
             th \in {t \in Threads : id \in DOMAIN ts'[t].history}}

CalibrateStep == cals' = cals + 1

\* C18: the calibrator body runs exactly once: an EnsureCalibrated call runs it
\* if and only if none has run it before; every later call, by any thread,
\* leaves cycles_per_ns, the offset table and the validity bits (and every
\* thread storage and the counter) unchanged; no other call changes them.
C18_CalibratorRunsOnce ==
    [][/\ calibrate_once => calibrate_once'
       /\ IF CalibrateStep
          THEN /\ calibrate_once'
               /\ IF calibrate_once
                  THEN /\ cycles_per_ns' = cycles_per_ns
                       /\ calib_offsets' = calib_offsets
                       /\ calib_valid' = calib_valid
                       /\ ts' = ts /\ tsc' = tsc /\ thread_buffers' = thread_buffers
                  ELSE \A k \in 0 .. (CALIB_KEY_COUNT - 1) : calib_valid'[k]
          ELSE /\ cycles_per_ns' = cycles_per_ns
               /\ calib_offsets' = calib_offsets
               /\ calib_valid' = calib_valid
               /\ calibrate_once' = calibrate_once]_vars

\* thread 1 ran the calibrator; thread 2, which has no storage, has called
\* EnsureCalibrated since
C18_Witness ==
    /\ cals = 2 /\ calibrate_once
    /\ last.op = "Calibrate" /\ last.th = 2
    /\ thread_buffers = <<1>> /\ ~has_ts[2]
    /\ \A k \in 0 .. (CALIB_KEY_COUNT - 1) : calib_valid[k]

\* the values of a uint8_t key
KeyValues == 0 .. 255

\* C19: CalibrationOffset(key) is 0 for the sentinels UNSET and MIXED, for every
\* key outside the ten table slots, and for every key while the calibrator has
\* not completed (validity bit false); otherwise it is the offset measured for
\* the key.
C19_OffsetZeroUnlessValidSlot ==
    /\ CalibrationOffset(CALIB_KEY_UNSET) = 0
    /\ CalibrationOffset(CALIB_KEY_MIXED) = 0
    /\ \A key \in KeyValues :
          CalibrationOffset(key) = IF key > 9 THEN 0
                                   ELSE IF calib_valid[key] THEN calib_offsets[key]
                                   ELSE 0
    /\ ~calibrate_once => \A key \in KeyValues : CalibrationOffset(key) = 0

\* the calibrator has measured a non-zero offset for every table slot
C19_Witness ==
    /\ calibrate_once
    /\ \A key \in 0 .. 9 : calib_valid[key] /\ CalibrationOffset(key) > 0
    /\ CalibrationOffset(CalibKey(Fast, Fast)) = calib_offsets[0]

\* the step is a DumpToStream call
DumpStep == report' # report

\* C20: in calibrated mode every reported sample s_calibrated of a raw sample
\* s_raw satisfies 0 <= s_calibrated <= s_raw: it is s_raw minus the offset of
\* the series' tag, clamped at zero, never negative and never wrapped; with
\* offset 60 and raw 45 it is 0.  In raw mode the sample is reported as it is.
C20_CalibratedSampleClamped ==
    /\ \A id \in DOMAIN report.series :
          LET r == report.series[id]
          IN /\ r.off >= 0
             /\ (report.data_mode = "Raw") => (r.off = 0)
             /\ Len(r.adjusted) = Len(r.values)
             /\ \A k \in 1 .. Len(r.values) :
                   /\ 0 <= r.adjusted[k]
                   /\ r.adjusted[k] <= r.values[k]
                   /\ r.adjusted[k] = IF r.values[k] > r.off
                                      THEN r.values[k] - r.off ELSE 0
    /\ Adjust(45, 60) = 0

\* a calibrated report of two threads' samples of "B" holds one below the offset
\* of the series' tag: it is reported as 0
C20_Witness ==
    /\ report.data_mode = "Calibrated"
    /\ "B" \in DOMAIN report.series
    /\ report.series["B"].calib_key = CalibKey(Mid, Hard)
    /\ report.series["B"].off = 2
    /\ report.series["B"].values = <<1>>
    /\ report.series["B"].adjusted = <<0>>

\* the samples of id, storage by storage from the k-th of the registry on, each
\* less the offset of the tag of the buffer it is read from, clamped at zero
RECURSIVE PerBufferAdjusted(_, _)
PerBufferAdjusted(id, k) ==
    IF k > Len(thread_buffers) THEN << >>
    ELSE LET h == ts[thread_buffers[k]].history
         IN (IF id \notin DOMAIN h THEN << >>
             ELSE LET raw == NonZeroFrom(h[id].data, 0)
                  IN [n \in 1 .. Len(raw) |->
                         Adjust(raw[n], CalibrationOffset(h[id].calib_key))])
            \o PerBufferAdjusted(id, k + 1)

\* C21 (as claimed): in a calibrated report every sample is adjusted with the
\* offset of the tag of the ring buffer it was read from,
\* v' = max(0, v - offset(buffer.calib_key)), also when the buffers of the id on
\* different threads carry different tags or one of them is still UNSET.
C21_SampleAdjustedByItsBufferTag ==
    [][(report' # report /\ report'.data_mode = "Calibrated")
       => \A id \in DOMAIN report'.series :
             report'.series[id].adjusted = PerBufferAdjusted(id, 1)']_vars

\* the sequence q is in ascending order
Ascending(q) == \A k \in 1 .. (Len(q) - 1) : q[k] <= q[k + 1]

\* the values in the sequence q
Range(q) == {q[k] : k \in 1 .. Len(q)}

\* C22: for every non-empty input the cleaner's output is sorted ascending and
\* is a sub-multiset of the input; bypass = |input| - |output|; every kept value
\* is <= cutoff and every removed value is > cutoff; if the filter would remove
\* every value the output is the whole sorted input and bypass = 0; the output
\* is never empty.
C22_CleanerOutput ==
    (applied.fn = "DataClean" /\ applied.arg # << >>)
    => LET in  == applied.arg
           out == applied.out
       IN /\ Ascending(out.values)
          /\ \A v \in Range(in) \cup Range(out.values) :
                CountIn(out.values, v) <= CountIn(in, v)
          /\ out.bypass = Len(in) - Len(out.values)
          /\ out.values # << >>
          /\ IF \E v \in Range(in) : 2 * v <= out.cutoff
             THEN \A v \in Range(in) :
                     CountIn(out.values, v) =
                        IF 2 * v <= out.cutoff THEN CountIn(in, v) ELSE 0
             ELSE /\ out.bypass = 0
                  /\ \A v \in Range(in) : CountIn(out.values, v) = CountIn(in, v)

\* an unsorted input of four full buckets and a short tail whose sample is
\* above the cutoff: it is removed and the rest comes out sorted
C22_Witness ==
    /\ applied.fn = "DataClean"
    /\ Len(applied.arg) = 4 * BUCKET_SIZE + 1
    /\ ~Ascending(applied.arg)
    /\ applied.out.bypass = 1
    /\ Len(applied.out.values) = 4 * BUCKET_SIZE
    /\ applied.out.values[1] = 1
    /\ applied.out.values[4 * BUCKET_SIZE] = 2

\* C23 (as claimed): for a full bucket of samples of 10 us with one sample of
\* 900 us in it, followed by a full bucket of samples of 10 us (two bucket
\* maxima), the cleaner removes exactly the 900 us sample: bypass = 1 and the
\* output is one sample shorter than the input.
C23_UpperFenceRemovesOutlier ==
    (applied.fn = "DataClean" /\ applied.arg = UpperFenceInput)
    => /\ applied.out.bypass = 1
       /\ Len(applied.out.values) = Len(UpperFenceInput) - 1

\* C24: once calibration has completed, none of the calibration ids (the nine
\* permutation ids, the Pulse calibration id and the scratch id pulsed inside it)
\* is a key of the buffer map of any registered thread, so Snapshot returns
\* nothing for them and no report row is produced for them.
C24_CalibrationIdsErased ==
    calibrate_once
    => /\ \A k \in 1 .. Len(thread_buffers) :
             (DOMAIN ts[thread_buffers[k]].history) \cap CalibIds = {}
       /\ \A id \in CalibIds : ExtractRaw(thread_buffers, ts, id) = << >>
       /\ DumpIds \cap CalibIds = {}

\* the calibrator has run on a thread that holds a sample of "B"; it measured the
\* offsets from the samples of the calibration ids, and the sample of "B" is
\* still there
C24_Witness ==
    \E th \in Threads :
        /\ calibrate_once /\ last.op = "Calibrate" /\ last.th = th
        /\ calib_offsets[CalibKey(Hard, Mid)] > 0
        /\ calib_offsets[CALIB_KEY_PULSE] > 0
        /\ pulse_rb[th][CalibSite] = CalibScratch
        /\ DOMAIN ts[th].history = {"B"}
        /\ ExtractRaw(thread_buffers, ts, "B") # << >>

\* C25 (as claimed): a Stop whose timestamp is smaller than the start timestamp
\* of the scope it pops (the counter went backwards) records no sample: the
\* delta is coerced to zero and no slot of any ring buffer receives a value, in
\* particular not the wrapped difference.
C25_BackwardTimestampRecordsNothing ==
    [][\A th \in Threads :
        (/\ StopStep(th)
         /\ ts[th].stack_ptr > 0
         /\ tsc' < ts[th].stack_starts[ts[th].stack_ptr - 1])
        => \A o \in Threads : \A id \in DOMAIN ts'[o].history :
              ts'[o].history[id].data = BufferOf(ts[o], id).data]_vars

\* C26 (as claimed): zero is only ever the empty-slot sentinel: no Stop and no
\* LATTE_PULSE writes the value 0 into a slot or advances the head for it,
\* whatever timestamps the counter returns, two equal consecutive reads
\* included.
C26_ZeroIsNeverWritten ==
    [][\A th \in Threads : \A id \in DOMAIN ts'[th].history :
          LET a == BufferOf(ts[th], id)
              b == ts'[th].history[id]
          IN (b.head # a.head \/ b.data # a.data) => b.data[a.head] # 0]_vars

\* C27 (as claimed): once calibration has completed cycles_per_ns > 0, for every
\* pair of wall-clock and counter readings the calibrator can observe: zero
\* elapsed wall time gives the fallback 1.0, never a division by zero, and the
\* value is never 0, equal counter reads included.
C27_CyclesPerNsPositive ==
    calibrate_once
    => /\ cycles_per_ns.den > 0
       /\ cycles_per_ns.num > 0

\* the positions (from 1) of the b-th run of BUCKET_SIZE consecutive samples of
\* the sequence q, b counted from 0
BucketAt(q, b) == {k \in 1 .. Len(q) : (k - 1) \div BUCKET_SIZE = b}

\* the buckets the cutoff is computed from: the full ones, and the tail if it
\* has at least BUCKET_SIZE / 2 samples
UsedBuckets(q) ==
    {b \in 0 .. (Len(q) \div BUCKET_SIZE) :
        /\ BucketAt(q, b) # {}
        /\ Cardinality(BucketAt(q, b)) >= BUCKET_SIZE \div 2}

\* the largest sample of bucket b
MaxOfBucket(q, b) ==
    CHOOSE x \in {q[k] : k \in BucketAt(q, b)} : \A k \in BucketAt(q, b) : q[k] <= x

\* the used buckets of q, each paired with its largest sample
BucketMaxima(q) == {<<b, MaxOfBucket(q, b)>> : b \in UsedBuckets(q)}

\* the maximum found at index i (from 0) when the maxima M of the buckets are
\* sorted ascending
SortedMaxAt(M, i) ==
    (CHOOSE p \in M :
        /\ Cardinality({r \in M : r[2] < p[2]}) <= i
        /\ Cardinality({r \in M : r[2] <= p[2]}) > i)[2]

\* C29: the cutoff of the cleaner is computed from the maxima of the consecutive
\* buckets of BUCKET_SIZE samples (non-negative samples), a tail bucket being
\* used only if it has at least half that many: with n >= 4 maxima, sorted,
\* cutoff = q3 + 3 * (q3 - q1), q1 at index n/4 and q3 at index 3n/4, or
\* 1.5 * q3 when q3 = q1; with 1 to 3 maxima, 1.5 times the largest; with no
\* bucket (fewer than half a bucket of samples) nothing is filtered.
C29_CutoffFromBucketMaxima ==
    (applied.fn = "DataClean" /\ applied.arg # << >>
        /\ \A v \in Range(applied.arg) : v >= 0)
    => \A M \in {BucketMaxima(applied.arg)} :
          LET in  == applied.arg
              out == applied.out
              n   == Cardinality(M)
          IN /\ (n >= 4) =>
                   \A q1 \in {SortedMaxAt(M, n \div 4)},
                      q3 \in {SortedMaxAt(M, (3 * n) \div 4)} :
                        out.cutoff = IF q3 # q1 THEN 2 * (q3 + 3 * (q3 - q1))
                                     ELSE 3 * q3
             /\ (n \in 1 .. 3) => out.cutoff = 3 * SortedMaxAt(M, n - 1)
             /\ (n = 0) => /\ out.bypass = 0
                           /\ out.values = SortAsc(in)
             /\ (n = 0) <=> (Len(in) < BUCKET_SIZE \div 2)

\* five full buckets with maxima 1, 1, 2, 2 and 9 in some order and a tail of one
\* sample, which is not used: q1 = 1, q3 = 2, cutoff 5; the samples of 9 are
\* removed
C29_Witness ==
    /\ applied.fn = "DataClean"
    /\ Len(applied.arg) = 5 * BUCKET_SIZE + 1
    /\ Cardinality(UsedBuckets(applied.arg)) = 5
    /\ applied.arg[Len(applied.arg)] = 9
    /\ applied.out.cutoff = 2 * 5
    /\ applied.out.bypass = 2
    /\ applied.arg[1] = 2

\* the smallest of the samples of q at the positions P
MinAt(q, P) == CHOOSE x \in {q[k] : k \in P} : \A k \in P : x <= q[k]

\* the positions (from 1) of the b-th full bucket of BUCKET samples, b from 0
FullBucket(b) == (b * BUCKET + 1) .. ((b + 1) * BUCKET)

\* the minimum found at index i (from 0) when the minima of the full buckets
\* 0 .. nb - 1 of q are sorted ascending
SortedMinAt(q, nb, i) ==
    CHOOSE x \in {MinAt(q, FullBucket(b)) : b \in 0 .. (nb - 1)} :
        /\ Cardinality({b \in 0 .. (nb - 1) : MinAt(q, FullBucket(b)) < x}) <= i
        /\ Cardinality({b \in 0 .. (nb - 1) : MinAt(q, FullBucket(b)) <= x}) > i

\* C30: BUMED over the extracted non-zero samples: only the full buckets of
\* BUCKET consecutive samples are used, a short final bucket is dropped; the
\* result is the median of the bucket minima, for an even number of buckets the
\* average of the two middle minima rounded half up, computed without overflow
\* of Cycles; with no full bucket it is the global minimum, with no samples 0.
C30_BumedIsMedianOfBucketMinima ==
    (applied.fn = "BUMED")
    => LET raw == applied.arg
           nb  == Len(raw) \div BUCKET
           a   == SortedMinAt(raw, nb, (nb \div 2) - 1)
           b   == SortedMinAt(raw, nb, nb \div 2)
       IN /\ (raw = << >>) => applied.out = 0
          /\ (raw # << >> /\ nb = 0) => applied.out = MinAt(raw, 1 .. Len(raw))
          /\ (nb > 0 /\ nb % 2 = 1) => applied.out = b
          /\ (nb > 0 /\ nb % 2 = 0)
             => /\ 2 * applied.out \in {a + b, a + b + 1}
                /\ a <= applied.out /\ applied.out <= b

\* two full buckets whose minima are 1 and a value near the top of the range,
\* and a final short bucket holding a smaller sample than the result
C30_Witness ==
    /\ applied.fn = "BUMED"
    /\ Len(applied.arg) = 2 * BUCKET + 1
    /\ applied.arg[Len(applied.arg)] = 2
    /\ applied.arg[1] = CyclesMax - 1
    /\ applied.out = (CyclesMax + 1) \div 2

\* thread th is inside a Start, Stop or LATTE_PULSE
Sampling(th) == pc[th].call \in {"Start", "Stop", "Pulse"}

\* the statements executed under the lock_guard of Register and of ExtractRaw
LockedAt == {"Register.push", "ExtractRaw.find", "ExtractRaw.read"}

\* the statements of the hot path that write the scope stack, the buffer map or
\* a ring buffer
HotWriteAt == {"Start.record", "Stop.pop", "Pulse.first", "push.data", "push.head"}

\* the scan of thread r is about to read the slot that thread w, the owner of
\* the buffer, is about to write
BufferRace(r, w) ==
    /\ r # w
    /\ pc[r].at = "ExtractRaw.read"
    /\ thread_buffers[pc[r].k] = w
    /\ pc[w].at = "push.data"
    /\ pc[w].id = pc[r].id
    /\ ts[w].history[pc[w].id].head = pc[r].i

\* the scan of thread r is about to search the buffer map of thread w while w
\* is about to insert a buffer into it
MapRace(r, w) ==
    /\ r # w
    /\ pc[r].at = "ExtractRaw.find"
    /\ pc[r].k <= Len(thread_buffers)
    /\ thread_buffers[pc[r].k] = w
    /\ \/ /\ pc[w].at = "Stop.pop"
          /\ StackNonEmpty(ts[w])
          /\ ts[w].stack_ids[ts[w].stack_ptr - 1] \notin DOMAIN ts[w].history
       \/ /\ pc[w].at = "Pulse.first"
          /\ pc[w].id \notin DOMAIN ts[w].history

C31_MutexOnlyAtRegistration ==
    [][\A th \in Threads :
          /\ (has_ts[th] => has_ts'[th])
          /\ Sampling(th) =>
                /\ (mutex' = th /\ mutex # th)
                      => (pc[th].at = "Register.lock" /\ ~has_ts[th] /\ has_ts'[th])
                /\ (DOMAIN ts'[th].history # DOMAIN ts[th].history)
                      => (mutex' = mutex /\ mutex # th)]_vars

\* a thread that registered in an earlier call has, inside Stop, just inserted
\* the buffer of "A" into its map, and does not hold the mutex
C31_Witness ==
    \E th \in Threads :
        /\ has_ts[th] /\ pc[th].call = "Stop" /\ pc[th].at = "push.data"
        /\ pc[th].id = "A" /\ ts[th].history["A"] = NewRingBuffer
        /\ \E k \in 1 .. Len(thread_buffers) : thread_buffers[k] = th
        /\ mutex # th

\* thread th is an entry of the registry
InRegistry(th) == \E k \in 1 .. Len(thread_buffers) : thread_buffers[k] = th

\* C32: Stop reads its timestamp in its first statement, before it obtains the
\* thread storage, pops the scope and looks the buffer up, and reads the counter
\* nowhere else: the sample is that timestamp minus the scope's start.  Start
\* reads its timestamp only when it has the storage, created and registered, as
\* the last thing it does.  A thread with an open scope has its storage, so
\* no storage is created, and the scope's buffer is not looked up, between the
\* start read and the stop read of a scope.
C32_TimestampOrdering ==
    [][\A th \in Threads :
          (pc'[th] # pc[th]) =>
             /\ (pc[th].at = "idle" /\ pc'[th].call = "Stop")
                   => /\ tsc' = tsc + 1 /\ pc'[th].t = tsc'
                      /\ ts' = ts /\ has_ts' = has_ts
                      /\ thread_buffers' = thread_buffers
             /\ (pc[th].call = "Stop") => (tsc' = tsc /\ pc[th].t <= tsc)
             /\ (pc[th].at = "Stop.pop" /\ StackNonEmpty(ts[th]))
                   => /\ pc'[th].at = "push.data"
                      /\ pc'[th].val =
                            CyclesSub(pc[th].t,
                                      ts[th].stack_starts[ts[th].stack_ptr - 1])
             /\ (pc[th].at = "idle" /\ pc'[th].call = "Start") => (tsc' = tsc)
             /\ (pc[th].call = "Start" /\ tsc' # tsc)
                   => /\ pc[th].at = "Start.record" /\ pc'[th].at = "idle"
                      /\ has_ts[th] /\ InRegistry(th)
                      /\ thread_buffers' = thread_buffers
                      /\ ts'[th].stack_starts[ts[th].stack_ptr] = tsc'
             /\ StackNonEmpty(ts[th]) => (has_ts[th] /\ InRegistry(th))
             /\ (pc[th].at \in {"Register.lock", "Register.push"})
                   => ~StackNonEmpty(ts[th])]_vars

\* a Stop has looked its buffer up after another thread read the counter: the
\* sample it is about to push is the timestamp it read first minus the start
C32_Witness ==
    \E th \in Threads :
        /\ pc[th].call = "Stop" /\ pc[th].at = "push.data"
        /\ pc[th].t < tsc
        /\ pc[th].val = pc[th].t - ts[th].stack_starts[ts[th].stack_ptr]
        /\ pc[th].val > 0

\* the calibrator body runs in this step, on thread th
CalibratorRunsOn(th) == CalibrateStep /\ ~calibrate_once /\ last'.th = th

\* the scope stack of storage r has the depth and the open scopes of storage s
SameStack(s, r) ==
    /\ r.stack_ptr = s.stack_ptr
    /\ \A i \in 0 .. (s.stack_ptr - 1) :
          /\ r.stack_ids[i] = s.stack_ids[i]
          /\ r.stack_starts[i] = s.stack_starts[i]
          /\ r.stack_modes[i] = s.stack_modes[i]

\* the buffers of the user ids in storage r are those of storage s
SameUserBuffers(s, r) ==
    \A id \in UserIds :
        /\ (id \in DOMAIN r.history) <=> (id \in DOMAIN s.history)
        /\ (id \in DOMAIN s.history /\ id \in DOMAIN r.history)
              => r.history[id] = s.history[id]

\* C33 (as claimed): calibration is transparent to the user data of the thread
\* it runs on: whatever its scope stack holds when calibration runs (nothing,
\* some scopes, or D_max scopes), afterwards the stack has the same depth and
\* the same open scopes, and no ring buffer of a user id has gained, lost or
\* changed a sample or its tag.
C33_CalibrationIsTransparent ==
    [][\A th \in Threads :
          CalibratorRunsOn(th)
          => /\ SameStack(ts[th], ts'[th])
             /\ SameUserBuffers(ts[th], ts'[th])]_vars

\* the step is a Snapshot or a DumpToStream(Cycle, Raw) call (SpecRead)
ReadStep == ops' = ops /\ cals' = cals

\* C34: Snapshot(id) and DumpToStream(Cycle, Raw) are read-only: they change no
\* thread storage (scope stack, buffer map, slots, heads, tags) and no registry
\* entry, register no thread and insert no buffer; they return the non-zero
\* slots of the state they are called in, so that a second call with no
\* recording in between returns the same samples.
C34_ReadsChangeNothing ==
    [][ReadStep
       => /\ ts' = ts /\ has_ts' = has_ts /\ thread_buffers' = thread_buffers
          /\ pulse_rb' = pulse_rb /\ pulse_last' = pulse_last /\ tsc' = tsc
          /\ calibrate_once' = calibrate_once /\ calib_valid' = calib_valid
          /\ \A id \in UserIds :
                ExtractRaw(thread_buffers', ts', id) = ExtractRaw(thread_buffers, ts, id)
          /\ (snap' # snap)
                => snap'.out = ExtractRaw(thread_buffers, ts, snap'.id)
          /\ (report' # report)
                => /\ report'.data_mode = "Raw"
                   /\ \A id \in UserIds :
                         IF ExtractRaw(thread_buffers, ts, id) = << >>
                         THEN id \notin DOMAIN report'.series
                         ELSE /\ id \in DOMAIN report'.series
                              /\ report'.series[id].values =
                                    ExtractRaw(thread_buffers, ts, id)]_vars

\* a Snapshot of "B" and a raw report returned the same sample of "B"; the
\* thread that recorded it has no buffer of "A", and the other thread, which
\* recorded nothing, is not registered
C34_Witness ==
    /\ snap.id = "B" /\ Len(snap.out) = 1
    /\ report.data_mode = "Raw" /\ DOMAIN report.series = {"B"}
    /\ report.series["B"].values = snap.out
    /\ snap.out = ExtractRaw(thread_buffers, ts, "B")
    /\ thread_buffers = <<1>> /\ ~has_ts[2]
    /\ DOMAIN ts[1].history = {"B"}


\* the statements at which a thread requests the Manager mutex
LockRequestAt == {"Register.lock", "ExtractRaw.lock", "Calibrate.extract", "Dump.lock"}

\* the statements at which a thread is in std::call_once before the callable
\* has run (it may wait there)
LatchWaitAt == {"once.enter", "once.wait"}

\* C35: no thread requests the Manager mutex while it holds it, no thread is in
\* the wait of the calibration latch while it holds the mutex, and, when every
\* thread that can take a step eventually takes one, every call of
\* EnsureCalibrated, Snapshot, DumpToStream and of a hot-path operation with its
\* first-use registration returns
C35_CallsReturn ==
    /\ [](\A th \in Threads :
            pc[th].at \in LockRequestAt \cup LatchWaitAt => mutex # th)
    /\ \A th \in Threads : (pc[th].at # "idle") ~> (pc[th].at = "idle")

\* a thread waits on the latch while the calibrating thread holds the mutex
C35_Witness ==
    \E th \in Threads : \E o \in Threads \ {th} :
        /\ pc[th].at = "once.wait"
        /\ Calibrating(o)
        /\ mutex = o

\* calibration has completed: the latch is set, the ten slots are valid, no
\* thread is in Calibrate and no storage has a buffer of a calibration id
CalibrationDone ==
    /\ calibrate_once
    /\ \A k \in 0 .. (CALIB_KEY_COUNT - 1) : calib_valid[k]
    /\ \A o \in Threads : ~Calibrating(o) /\ (DOMAIN ts[o].history) \cap CalibIds = {}

\* thread th is in DumpToStream, past its EnsureCalibrated, in Time or Calibrated
\* mode
DumpReadsOffsets(th) ==
    /\ pc[th].call = "Dump"
    /\ pc[th].at \in {"Dump.lock", "Dump.collect"}
    /\ pc[th].unit = "Time" \/ pc[th].data_mode = "Calibrated"

\* C36: when EnsureCalibrated returns on a thread, whether it ran Calibrate,
\* waited for the thread running it or found the latch set, calibration has
\* completed (all ten slots valid, calibration ids erased); from then on the
\* offsets and their validity never change; and a DumpToStream in Time or
\* Calibrated mode collects only after calibration has completed
C36_ReturnsCalibrated ==
    [][/\ \A th \in Threads :
            (pc'[th].at = "once.return" \/ DumpReadsOffsets(th)') => CalibrationDone'
       /\ CalibrationDone =>
            /\ CalibrationDone'
            /\ calib_offsets' = calib_offsets
            /\ calib_valid' = calib_valid]_vars

\* a thread that waited for the calibrating thread returns from EnsureCalibrated
C36_Witness ==
    \E th \in Threads :
        /\ pc[th].at = "once.return"
        /\ pc[th].waited
        /\ \E o \in Threads \ {th} : pc[o].call \in {"EnsureCalibrated", "Dump"}

\* Manager::Calibrate runs on thread th in this step, from EnsureCalibrated or
\* from a direct call
CalibrateRunsOn(th) ==
    /\ CalibrateStep
    /\ last'.th = th
    /\ last'.op = "CalibrateDirect" \/ (last'.op = "Calibrate" /\ ~calibrate_once)

\* C37 (as claimed): every Pulse write goes to a ring buffer that is at that
\* moment an entry of the calling thread's buffer map: the reference cached at a
\* LATTE_PULSE call site of a thread does not dangle when a Pulse of the thread
\* writes through it, nor when Manager::Calibrate runs its pulse loop on the
\* thread
C37_PulseReferenceNeverDangles ==
    [][\A th \in Threads :
          /\ PulseStep(th) =>
                \A site \in PulseSites(th) :
                    ~Dangles(ts[th].history, pulse_rb[th][site])
          /\ CalibrateRunsOn(th) =>
                ~Dangles(ts[th].history, pulse_rb[th][CalibSite])]_vars

\* the non-zero slots of the buffers of id in the registered storages: the
\* pairs of a registry entry and a slot
NonZeroOf(registry, storages, id) ==
    {e \in (1 .. Len(registry)) \X Slots :
        /\ id \in DOMAIN storages[registry[e[1]]].history
        /\ storages[registry[e[1]]].history[id].data[e[2]] # 0}

\* the step is a call of DumpToStream
DumpToStreamStep == DumpStep \/ cals' # cals

====
